---- MODULE Spec2Model ----
(***************************************************************************)
(* QP-Wasser (LabData Manager): device classification, colour resolution,  *)
(* selection model, file load and cloud persistence of the React app.      *)
(*                                                                         *)
(* Strings of the program that are inspected character by character        *)
(* (header names, base parameter names, CSV cells) are sequences of        *)
(* one-character strings; strings that are only stored and compared        *)
(* (comments, tags) are TLA+ strings.                                      *)
(***************************************************************************)
EXTENDS Integers, Sequences, FiniteSets, Bags, TLC

VARIABLES
    parsedData,   \* App: useState<ParsedDataset | null>
    selection,    \* App: useState<SelectionState>
    comments,     \* App: useState<Record<string,string>>
    isLoading,    \* App: useState(false)
    error,        \* App: useState<string | null>
    pending,      \* bag of the asynchronous operations awaiting their result
    requests,     \* number of fetch calls made so far
    cloud,        \* the blob "shared-state.json" of the persistence endpoint
    last,         \* the handler or continuation that ran last, with its outcome
    name,         \* input of the pure string functions
    group,        \* result of getDeviceGroup(name)
    active,       \* input of getRowColorClass: the active base parameters
    colour,       \* result of getRowColorClass
    rawFile,      \* input of parseLabDataCsv: the rows Papa.parse returned
    processedData,\* IonBalanceAnalysis: the table of the last render
    csvRows,      \* IonBalanceAnalysis.handleExport: the lines of the last export
    ibRows,       \* ReportView.handleExcelExport: sheet 2 of the last export
    timer,        \* App: time since the auto-save effect set its interval
    idle          \* time with a dataset loaded since a save attempt last started

vars == <<parsedData, selection, comments, isLoading, error, pending, requests,
          cloud, last, name, group, active, colour,
          rawFile, processedData, csvRows, ibRows, timer, idle>>

appVars == <<parsedData, selection, comments, isLoading, error, pending, requests,
             cloud, last>>
analysisVars == <<rawFile, processedData, csvRows, ibRows>>
pureVars == <<name, group, active, colour, rawFile, processedData, csvRows, ibRows>>
timeVars == <<timer, idle>>

\* the effect with the dependencies [parsedData, selection, comments] runs
\* again: clearInterval, then setInterval(..., 120000)
intervalRestarted ==
    /\ timer' = 0
    /\ UNCHANGED idle

\* a dataset was set: the effect runs again, and the dataset is new
intervalStarted ==
    /\ timer' = 0
    /\ idle' = 0

---------------------------------------------------------------------------
(* Strings *)

Digits == {"0", "1", "2", "3", "4", "5", "6", "7", "8", "9"}

LowerCase == <<"a","b","c","d","e","f","g","h","i","j","k","l","m",
               "n","o","p","q","r","s","t","u","v","w","x","y","z">>
UpperCase == <<"A","B","C","D","E","F","G","H","I","J","K","L","M",
               "N","O","P","Q","R","S","T","U","V","W","X","Y","Z">>

\* String.prototype.toUpperCase on one character
UpperChar(c) ==
    CASE c = "a" -> "A" [] c = "b" -> "B" [] c = "c" -> "C" [] c = "d" -> "D"
      [] c = "e" -> "E" [] c = "f" -> "F" [] c = "g" -> "G" [] c = "h" -> "H"
      [] c = "i" -> "I" [] c = "j" -> "J" [] c = "k" -> "K" [] c = "l" -> "L"
      [] c = "m" -> "M" [] c = "n" -> "N" [] c = "o" -> "O" [] c = "p" -> "P"
      [] c = "q" -> "Q" [] c = "r" -> "R" [] c = "s" -> "S" [] c = "t" -> "T"
      [] c = "u" -> "U" [] c = "v" -> "V" [] c = "w" -> "W" [] c = "x" -> "X"
      [] c = "y" -> "Y" [] c = "z" -> "Z" [] c = "ä" -> "Ä" [] c = "ö" -> "Ö"
      [] c = "ü" -> "Ü" [] OTHER -> c

\* String.prototype.toUpperCase
ToUpper(s) == [i \in 1..Len(s) |-> UpperChar(s[i])]

\* String.prototype.includes
Includes(s, sub) ==
    \E i \in 0..(Len(s) - Len(sub)) : SubSeq(s, i + 1, i + Len(sub)) = sub

IsWhite(c) == c = " "

RECURSIVE TrimLeft(_)
TrimLeft(s) == IF s # <<>> /\ IsWhite(Head(s)) THEN TrimLeft(Tail(s)) ELSE s

RECURSIVE TrimRight(_)
TrimRight(s) ==
    IF s # <<>> /\ IsWhite(s[Len(s)]) THEN TrimRight(SubSeq(s, 1, Len(s) - 1)) ELSE s

\* String.prototype.trim
Trim(s) == TrimRight(TrimLeft(s))

\* s[i..Len(s)] has the shape <digits>.<digits>
IsNumericSuffix(s, i) ==
    \E d \in (i + 1)..(Len(s) - 1) :
        /\ s[d] = "."
        /\ \A k \in i..(d - 1) : s[k] \in Digits
        /\ \A k \in (d + 1)..Len(s) : s[k] \in Digits

\* a plausible slip: the shortest match is removed (a lazy first \d+)
getBaseNameShortest(header) ==
    IF \E i \in 1..Len(header) : IsNumericSuffix(header, i)
    THEN LET i == CHOOSE j \in 1..Len(header) :
                     /\ IsNumericSuffix(header, j)
                     /\ \A k \in (j + 1)..Len(header) : ~IsNumericSuffix(header, k)
         IN  SubSeq(header, 1, i - 1)
    ELSE header

\* header.replace(/\d+\.\d+$/, ''): the leftmost match that ends the string
getBaseName(header) ==
    IF \E i \in 1..Len(header) : IsNumericSuffix(header, i)
    THEN LET i == CHOOSE j \in 1..Len(header) :
                     /\ IsNumericSuffix(header, j)
                     /\ \A k \in 1..(j - 1) : ~IsNumericSuffix(header, k)
         IN  SubSeq(header, 1, i - 1)
    ELSE header

---------------------------------------------------------------------------
(* Device classification *)

sTIT   == <<"T","I","T">>
sM1    == <<"M","1",".">>
sM3    == <<"M","3",".">>
sM8    == <<"M","8",".">>
sHHPHM == <<"H","H","+","P","H","M">>
sLFLFM == <<"L","F","L","F","M">>
sTOC   == <<"T","O","C">>
sICP   == <<"I","C","P">>
sIC    == <<"I","C">>

GROUP_ORDER == <<"pH-LF-TIT", "TOC", "IC", "ICP-OES", "Sonstige">>

DeviceGroups == {GROUP_ORDER[i] : i \in 1..Len(GROUP_ORDER)}

\* the first test of getDeviceGroup, on the upper-cased name
IsPhMarker(h) ==
    \/ Includes(h, sTIT) \/ Includes(h, sM1) \/ Includes(h, sM3)
    \/ Includes(h, sM8) \/ Includes(h, sHHPHM) \/ Includes(h, sLFLFM)

\* a plausible slip: the bare IC test placed before the ICP test
getDeviceGroupIcFirst(header) ==
    LET h == ToUpper(header)
    IN  IF IsPhMarker(h) THEN "pH-LF-TIT"
        ELSE IF Includes(h, sTOC) THEN "TOC"
        ELSE IF Includes(h, sIC) THEN "IC"
        ELSE IF Includes(h, sICP) THEN "ICP-OES"
        ELSE "Sonstige"

getDeviceGroup(header) ==
    LET h == ToUpper(header)
    IN  IF IsPhMarker(h) THEN "pH-LF-TIT"
        ELSE IF Includes(h, sTOC) THEN "TOC"
        ELSE IF Includes(h, sICP) THEN "ICP-OES"
        ELSE IF Includes(h, sIC) THEN "IC"
        ELSE "Sonstige"

---------------------------------------------------------------------------
(* String.prototype.localeCompare(.., 'de'): three-level collation.  Spaces  *)
(* and punctuation sort before digits, digits before letters; an umlaut    *)
(* differs from its base letter on the second level, case on the third     *)
(* (lower case first).                                                     *)

CollationOrder ==
    <<" ", "-", ",", ".", "(", ")", "+",
      "0", "1", "2", "3", "4", "5", "6", "7", "8", "9",
      "a","b","c","d","e","f","g","h","i","j","k","l","m",
      "n","o","p","q","r","s","t","u","v","w","x","y","z">>

LowerChar(c) ==
    IF \E i \in 1..26 : UpperCase[i] = c
    THEN LowerCase[CHOOSE i \in 1..26 : UpperCase[i] = c]
    ELSE c

BaseLetter(c) ==
    CASE c \in {"ä", "Ä"} -> "a"
      [] c \in {"ö", "Ö"} -> "o"
      [] c \in {"ü", "Ü"} -> "u"
      [] OTHER -> LowerChar(c)

CollationKey(c, level) ==
    CASE level = 1 ->
           LET b == BaseLetter(c)
           IN  IF \E i \in 1..Len(CollationOrder) : CollationOrder[i] = b
               THEN CHOOSE i \in 1..Len(CollationOrder) : CollationOrder[i] = b
               ELSE Len(CollationOrder) + 1
      [] level = 2 -> IF c \in {"ä", "Ä", "ö", "Ö", "ü", "Ü"} THEN 1 ELSE 0
      [] OTHER -> IF \E i \in 1..26 : UpperCase[i] = c THEN 1
                  ELSE IF c \in {"Ä", "Ö", "Ü"} THEN 1 ELSE 0

\* comparison of a and b on one level: -1, 0 or 1
CompareLevel(a, b, level) ==
    LET n == IF Len(a) < Len(b) THEN Len(a) ELSE Len(b)
        differ == {i \in 1..n : CollationKey(a[i], level) # CollationKey(b[i], level)}
    IN  IF differ # {}
        THEN LET i == CHOOSE j \in differ : \A k \in differ : j <= k
             IN  IF CollationKey(a[i], level) < CollationKey(b[i], level) THEN -1 ELSE 1
        ELSE IF Len(a) < Len(b) THEN -1
        ELSE IF Len(a) > Len(b) THEN 1
        ELSE 0

localeCompare(a, b) ==
    IF CompareLevel(a, b, 1) # 0 THEN CompareLevel(a, b, 1)
    ELSE IF CompareLevel(a, b, 2) # 0 THEN CompareLevel(a, b, 2)
    ELSE CompareLevel(a, b, 3)

---------------------------------------------------------------------------
(* CSV ingestion (csvService.parseLabDataCsv) on the rows Papa.parse returns *)

headerRowIndex   == 1
dataStartIndex   == 2
resultStartIndex == 7

\* rawRows[i] and row[i] with the 0-based indices of the source
At(seq, i) == seq[i + 1]
Has(seq, i) == i + 1 \in DOMAIN seq

\* `val ? val.trim() : ''` of a cell that may be missing
CellTrim(row, i) == IF Has(row, i) THEN Trim(At(row, i)) ELSE <<>>

\* headerMapping before the sort: the non-blank header cells from column 7 on
RECURSIVE headerMappingFrom(_, _)
headerMappingFrom(headerRow, i) ==
    IF i >= Len(headerRow) THEN <<>>
    ELSE IF Trim(At(headerRow, i)) # <<>>
         THEN <<[name |-> Trim(At(headerRow, i)), originalIndex |-> i]>>
                  \o headerMappingFrom(headerRow, i + 1)
         ELSE headerMappingFrom(headerRow, i + 1)

\* Array.prototype.sort (stable) with (a, b) => a.name.localeCompare(b.name, 'de')
RECURSIVE insertHeader(_, _)
insertHeader(sorted, h) ==
    IF sorted = <<>> THEN <<h>>
    ELSE IF localeCompare(sorted[Len(sorted)].name, h.name) <= 0
         THEN Append(sorted, h)
         ELSE Append(insertHeader(SubSeq(sorted, 1, Len(sorted) - 1), h),
                     sorted[Len(sorted)])

RECURSIVE sortHeaderMapping(_)
sortHeaderMapping(m) ==
    IF m = <<>> THEN <<>>
    ELSE insertHeader(sortHeaderMapping(SubSeq(m, 1, Len(m) - 1)), m[Len(m)])

\* a plausible slip: a header whose cell is missing in the row gets no key
resultValuesSkipMissing(mapping, row) ==
    LET names == {mapping[k].name : k \in {j \in 1..Len(mapping) :
                                              Has(row, mapping[j].originalIndex)}}
    IN  [n \in names |->
            LET k == CHOOSE j \in 1..Len(mapping) :
                         /\ mapping[j].name = n
                         /\ \A l \in (j + 1)..Len(mapping) : mapping[l].name # n
            IN  CellTrim(row, mapping[k].originalIndex)]

\* resultValues of one row: the trimmed cell at each header's original index;
\* of two headers with the same name the later one of the sorted list wins
resultValues(mapping, row) ==
    LET names == {mapping[k].name : k \in 1..Len(mapping)}
    IN  [n \in names |->
            LET k == CHOOSE j \in 1..Len(mapping) :
                         /\ mapping[j].name = n
                         /\ \A l \in (j + 1)..Len(mapping) : mapping[l].name # n
            IN  CellTrim(row, mapping[k].originalIndex)]

sREPEAT == <<"2">>

\* a plausible slip: the repeat cell is compared without trimming
labDataRowRepeatUntrimmed(mapping, row, i) ==
    [id |-> i,
     seriesId |-> CellTrim(row, 0),
     sampleId |-> CellTrim(row, 1),
     isRepeat |-> (Has(row, 3) /\ At(row, 3) = sREPEAT),
     rawRepeatValue |-> CellTrim(row, 3),
     results |-> resultValues(mapping, row)]

\* the record pushed for raw row i
labDataRow(mapping, row, i) ==
    [id |-> i,
     seriesId |-> CellTrim(row, 0),
     sampleId |-> CellTrim(row, 1),
     isRepeat |-> (CellTrim(row, 3) = sREPEAT),
     rawRepeatValue |-> CellTrim(row, 3),
     results |-> resultValues(mapping, row)]

RECURSIVE parseRowsFrom(_, _, _)
parseRowsFrom(mapping, rawRows, i) ==
    IF i >= Len(rawRows) THEN <<>>
    ELSE IF Len(At(rawRows, i)) < 2
         THEN parseRowsFrom(mapping, rawRows, i + 1)
         ELSE <<labDataRow(mapping, At(rawRows, i), i)>>
                  \o parseRowsFrom(mapping, rawRows, i + 1)

\* the first check of parseLabDataCsv: it rejects with an Error
parseFails(file) == file.readError \/ Len(file.rows) < 3

\* the dataset parseLabDataCsv resolves with
parseLabDataCsv(file) ==
    LET mapping == sortHeaderMapping(
                       headerMappingFrom(At(file.rows, headerRowIndex), resultStartIndex))
    IN  [loaded |-> TRUE,
         fileName |-> file.name,
         uploadDate |-> "Date",
         resultHeaders |-> [k \in 1..Len(mapping) |-> mapping[k].name],
         data |-> parseRowsFrom(mapping, file.rows, dataStartIndex)]

---------------------------------------------------------------------------
(* Construction state of the App component (before its effects ran) *)

NullData ==
    [loaded |-> FALSE, fileName |-> "", uploadDate |-> "none",
     resultHeaders |-> <<>>, data |-> <<>>]

EmptySelection == [selectedRowIds |-> {}, rowParams |-> <<>>]

\* JSON values: an array, or an object with its own enumerable properties
JsonArray(items) == [kind |-> "array", items |-> items]
JsonObject(props) == [kind |-> "object", items |-> props]

\* the store without "shared-state.json"
NoBlob ==
    [stored |-> FALSE, parsedData |-> NullData, comments |-> <<>>,
     selection |-> [selectedRowIds |-> JsonArray(<<>>), rowParams |-> <<>>],
     source |-> [parsedData |-> NullData, comments |-> <<>>,
                 selection |-> EmptySelection]]

AppConstructed ==
    /\ parsedData = NullData
    /\ selection = EmptySelection
    /\ comments = <<>>
    /\ isLoading = FALSE
    /\ error = "null"
    /\ pending = EmptyBag
    /\ requests = 0
    /\ cloud = NoBlob
    /\ last = [op |-> "construct", arg |-> "", row |-> 0]

\* no file was handed to the parser, no table rendered, nothing exported
NoFile == [name |-> "", readError |-> FALSE, rows |-> <<>>]

AnalysisIdle ==
    /\ rawFile = NoFile
    /\ processedData = <<>>
    /\ csvRows = <<>>
    /\ ibRows = <<>>
    /\ timer = 0
    /\ idle = 0

---------------------------------------------------------------------------
(* Classification of names: every name built from at most MaxTokens tokens *)

MaxTokens == 2

NameTokens ==
    { sTIT, sM1, sM3, sM8, sHHPHM, sLFLFM, sTOC, sICP, sIC,
      <<"t","o","c">>, <<"i","c","p">>, <<"i","c">>, <<"T","i","t">>,
      <<"I">>, <<"C">>, <<"P">>, <<"M">>, <<"3">>, <<".">>, <<"1">>,
      <<"F","e">>, <<"C","a">>, <<"L","F">>, <<"H","H","+">>, <<"P","H","M">> }

RECURSIVE NamesUpTo(_)
NamesUpTo(n) ==
    IF n <= 1 THEN NameTokens
    ELSE LET shorter == NamesUpTo(n - 1)
         IN  shorter \cup {a \o b : a \in shorter, b \in NameTokens}

Names == NamesUpTo(MaxTokens)

NoColour == "none"

ClassifyInit ==
    /\ AppConstructed
    /\ name \in Names
    /\ group = "none"
    /\ active = {}
    /\ colour = NoColour
    /\ AnalysisIdle

\* a call of getDeviceGroup
Classify ==
    /\ group = "none"
    /\ group' = getDeviceGroup(name)
    /\ UNCHANGED <<name, active, colour>>
    /\ UNCHANGED analysisVars
    /\ UNCHANGED appVars
    /\ UNCHANGED timeVars

ClassifyNext == Classify

SpecClassify == ClassifyInit /\ [][ClassifyNext]_vars

\* C1: getDeviceGroup is total and first-match ordered: the result is one of
\* the five groups; a name whose upper-cased form contains TIT, M1., M3., M8.,
\* HH+PHM or LFLFM is pH-LF-TIT; else one containing TOC is TOC; else one
\* containing ICP is ICP-OES; else one containing IC is IC; else Sonstige.
\* A name containing ICP without a pH marker and without TOC is never IC.
C1_ClassifyFirstMatch ==
    group # "none" =>
        LET h == ToUpper(name)
            ph == \E m \in {sTIT, sM1, sM3, sM8, sHHPHM, sLFLFM} : Includes(h, m)
            toc == Includes(h, sTOC)
            icp == Includes(h, sICP)
            ic == Includes(h, sIC)
        IN  /\ group \in {"pH-LF-TIT", "TOC", "IC", "ICP-OES", "Sonstige"}
            /\ ph => group = "pH-LF-TIT"
            /\ (~ph /\ toc) => group = "TOC"
            /\ (~ph /\ ~toc /\ icp) => group = "ICP-OES"
            /\ (~ph /\ ~toc /\ ~icp /\ ic) => group = "IC"
            /\ (~ph /\ ~toc /\ ~icp /\ ~ic) => group = "Sonstige"
            /\ (icp /\ ~ph /\ ~toc) => group # "IC"

\* an ICP name (no pH marker, no TOC, mixed case) has been classified ICP-OES
C1_Witness ==
    /\ name = <<"i","c","p","F","e">>
    /\ group = "ICP-OES"

---------------------------------------------------------------------------
(* Colour resolution of a report row (ReportView.getRowColorClass) *)

nPPO4IC   == <<"P","P","O","4","I","C">>
nPPgesICP == <<"P","P","g","e","s","I","C","P">>
nSSO4IC   == <<"S","S","O","4","I","C">>
nSSgesICP == <<"S","S","g","e","s","I","C","P">>
nNNgesTOC == <<"N","N","g","e","s","T","O","C">>
nNNH4IC   == <<"N","N","H","4","I","C">>
nNNO2IC   == <<"N","N","O","2","I","C">>
nNNO3IC   == <<"N","N","O","3","I","C">>
nCGES     == <<"C","G","E","S">>

\* the name lists of the three priority rules
P_NAMES == {nPPO4IC, nPPgesICP}
S_NAMES == {nSSO4IC, nSSgesICP}
N_NAMES == {nNNgesTOC, nNNH4IC, nNNO2IC, nNNO3IC, nCGES}

\* c.toUpperCase().includes(x) for some x of the list (the lists are matched
\* in upper case: 'PPGESICP', 'NNGESTOC', ...)
MatchesList(c, list) == \E x \in list : Includes(ToUpper(c), ToUpper(x))

\* hexColor of the value returned by getRowColorClass
WHITE  == "FFFFFF"
YELLOW == "FFFFCC"
ORANGE == "FFDDBB"
PINK   == "FFCCFF"
PURPLE == "E6CCFF"
RED    == "FFCCCC"
BLUE   == "CCE5FF"
GREEN  == "CCFFCC"

\* has(partial) of getRowColorClass
has(s, partial) == \E c \in s : Includes(ToUpper(c), ToUpper(partial))

hasPH(s) ==
    \/ has(s, sTIT) \/ has(s, sM1) \/ has(s, sM3)
    \/ has(s, sM8) \/ has(s, sHHPHM) \/ has(s, sLFLFM)

\* the device-group rules of getRowColorClass
groupColour(s) ==
    LET hasTOC == has(s, sTOC)
        hasIC  == has(s, sIC)
        hasICP == has(s, sICP)
    IN  IF hasPH(s) /\ ~hasTOC /\ ~hasIC /\ ~hasICP THEN PURPLE
        ELSE IF hasTOC /\ hasIC /\ ~hasICP /\ ~hasPH(s) THEN RED
        ELSE IF hasIC /\ hasICP /\ ~hasTOC /\ ~hasPH(s) THEN BLUE
        ELSE IF hasTOC /\ hasIC /\ hasICP THEN GREEN
        ELSE WHITE

\* a plausible slip: the device-group rules tried before the priority rules
getRowColorClassGroupFirst(s) ==
    IF s = {} THEN WHITE
    ELSE IF groupColour(s) # WHITE THEN groupColour(s)
    ELSE IF \A c \in s : MatchesList(c, P_NAMES) THEN YELLOW
    ELSE IF \A c \in s : MatchesList(c, S_NAMES) THEN ORANGE
    ELSE IF \A c \in s : MatchesList(c, N_NAMES) THEN PINK
    ELSE WHITE

\* getRowColorClass, on the active set of the row
getRowColorClass(s) ==
    IF s = {} THEN WHITE
    ELSE IF \A c \in s : MatchesList(c, P_NAMES) THEN YELLOW
    ELSE IF \A c \in s : MatchesList(c, S_NAMES) THEN ORANGE
    ELSE IF \A c \in s : MatchesList(c, N_NAMES) THEN PINK
    ELSE groupColour(s)

\* base parameter names a row can have active
nTOCTC   == <<"T","O","C","T","C">>
nICCa    == <<"I","C","C","a">>
nICPFe   == <<"I","C","P","F","e">>
nLFLFLFM == <<"L","F","L","F","L","F","M">>
nCorg    == <<"C","o","r","g"," ","b","e","r","e","c","h","n","e","t">>

ParamPool ==
    { nPPO4IC, nPPgesICP, nSSO4IC, nSSgesICP, nNNgesTOC, nNNH4IC, nCGES,
      nTOCTC, nICCa, nICPFe, nLFLFLFM, nCorg }

MaxActive == 3

ActiveSets == {s \in SUBSET ParamPool : Cardinality(s) <= MaxActive}

ColourInit ==
    /\ AppConstructed
    /\ name = <<>>
    /\ group = "none"
    /\ active \in ActiveSets
    /\ colour = NoColour
    /\ AnalysisIdle

\* a call of getRowColorClass for a row with the active set `active`
ResolveColour ==
    /\ colour = NoColour
    /\ colour' = getRowColorClass(active)
    /\ UNCHANGED <<name, group, active>>
    /\ UNCHANGED analysisVars
    /\ UNCHANGED appVars
    /\ UNCHANGED timeVars

ColourNext == ResolveColour

SpecColour == ColourInit /\ [][ColourNext]_vars

AllMatch(s, list) ==
    \A c \in s : \E x \in list : Includes(ToUpper(c), ToUpper(x))

\* the device groups of the members of an active set
GroupsOf(s) == {getDeviceGroup(c) : c \in s}

NoPriorityRule(s) ==
    /\ s # {}
    /\ ~AllMatch(s, P_NAMES) /\ ~AllMatch(s, S_NAMES) /\ ~AllMatch(s, N_NAMES)

\* C2: the priority rules are checked before the group rules: a non-empty
\* active set whose members all match the P list gets the P colour, else all
\* match the S list the S colour, else all match the N list the N colour,
\* also when a group rule would apply; the empty set gets the default colour.
C2_PriorityBeforeGroup ==
    colour # NoColour =>
        /\ active = {} => colour = WHITE
        /\ (active # {} /\ AllMatch(active, P_NAMES)) => colour = YELLOW
        /\ (active # {} /\ ~AllMatch(active, P_NAMES) /\ AllMatch(active, S_NAMES))
              => colour = ORANGE
        /\ (active # {} /\ ~AllMatch(active, P_NAMES) /\ ~AllMatch(active, S_NAMES)
              /\ AllMatch(active, N_NAMES)) => colour = PINK

\* {PPO4IC, PPgesICP} also satisfies the IC+ICP group rule and is coloured P
C2_Witness ==
    /\ active = {nPPO4IC, nPPgesICP}
    /\ groupColour(active) = BLUE
    /\ colour = YELLOW

\* C3: without a priority rule, the colour is TOC+IC exactly when the device
\* groups of the active parameters are {TOC, IC}, and IC+ICP exactly when they
\* are {IC, ICP-OES}.
C3_PairColoursExact ==
    (colour # NoColour /\ NoPriorityRule(active)) =>
        /\ colour = RED <=> GroupsOf(active) = {"TOC", "IC"}
        /\ colour = BLUE <=> GroupsOf(active) = {"IC", "ICP-OES"}

\* C4: without a priority rule, the colour is ALL exactly when the active set
\* has a TOC parameter, an IC parameter and an ICP-OES parameter; TOC + IC +
\* pH-LF-TIT gets the default colour.
C4_AllColourExact ==
    (colour # NoColour /\ NoPriorityRule(active)) =>
        /\ colour = GREEN <=> {"TOC", "IC", "ICP-OES"} \subseteq GroupsOf(active)
        /\ GroupsOf(active) = {"TOC", "IC", "pH-LF-TIT"} => colour = WHITE

---------------------------------------------------------------------------
(* Input files: the rows Papa.parse hands to parseLabDataCsv *)

E == <<>>
s11 == <<"1", ".", "1">>
s21 == <<"2", ".", "1">>
s81 == <<"8", ".", "1">>
s31 == <<"3", ".", "1">>
v1  == <<"1", ",", "5">>
v2  == <<" ", "0", ",", "2", " ">>
vBlank == <<" ">>

RawRow(seriesId, sampleId, repeat, results) ==
    <<seriesId, sampleId, E, repeat, E, E, E>> \o results

TitleRow == <<<<"L", "a", "b", "o", "r">>>>

\* two samples with a short row between them; ICCa is measured on two channels
FileA ==
    [name |-> "A.csv", readError |-> FALSE,
     rows |-> <<
        TitleRow,
        RawRow(E, E, E, << nTOCTC \o s11, nPPO4IC \o s11, nICCa \o s81, nICCa \o s21,
                           <<" ">> \o nPPgesICP \o s21 \o <<" ">>, E,
                           nLFLFLFM \o s31, nCorg, nSSO4IC \o s11 >>),
        RawRow(<<"S", "1">>, <<"P", "2">>, <<"1">>,
               << v1, v2, E, vBlank, v1, v1, E, v1 >>),
        << E >>,
        RawRow(<<"S", "1">>, <<"P", "1">>, <<" ", "2">>,
               << E, E, v1, vBlank, E, E, vBlank, E, v1 >>) >>]

\* one sample with two nitrogen parameters and a conductivity
FileB ==
    [name |-> "B.csv", readError |-> FALSE,
     rows |-> <<
        TitleRow,
        RawRow(E, E, E, << nNNgesTOC \o s11, nNNH4IC \o s11, nLFLFLFM \o s31 >>),
        RawRow(<<"S", "2">>, <<"P", "7">>, E, << v1, v1, v2 >>) >>]

\* one sample with one parameter
FileC ==
    [name |-> "C.csv", readError |-> FALSE,
     rows |-> <<
        TitleRow,
        RawRow(E, E, E, << nICPFe \o s11 >>),
        RawRow(<<"S", "3">>, <<"P", "9">>, E, << v2 >>) >>]

\* one sample with one phosphorus parameter
FileD ==
    [name |-> "D.csv", readError |-> FALSE,
     rows |-> <<
        TitleRow,
        RawRow(E, E, E, << nPPO4IC \o s21 >>),
        RawRow(<<"S", "4">>, <<"P", "3">>, <<"2">>, << v1 >>) >>]

\* a file whose only data row has a single cell: it is skipped
FileE ==
    [name |-> "E.csv", readError |-> FALSE,
     rows |-> << TitleRow, RawRow(E, E, E, << nICCa \o s21 >>), << <<"x">> >> >>]

\* a file with a header row and no data row
FileShort ==
    [name |-> "short.csv", readError |-> FALSE,
     rows |-> << TitleRow, RawRow(E, E, E, << nICCa \o s21 >>) >>]

AllFiles == {FileA, FileB, FileC, FileD, FileE, FileShort}

FileNamed(n) == CHOOSE f \in AllFiles : f.name = n

---------------------------------------------------------------------------
(* Selection model (DataSelection) *)

Range(f) == {f[x] : x \in DOMAIN f}

Rows(ds) == Range(ds.data)
RowIds(ds) == {r.id : r \in Rows(ds)}
RowOf(ds, id) == CHOOSE r \in Rows(ds) : r.id = id

\* `val && val.trim() !== ''` for results[h]
HasValue(row, h) == h \in DOMAIN row.results /\ Trim(row.results[h]) # <<>>

\* /M\d+\./ somewhere in h
HasMDigitsDot(h) ==
    \E i \in 1..Len(h) : \E d \in (i + 2)..Len(h) :
        /\ h[i] = "M"
        /\ h[d] = "."
        /\ \A k \in (i + 1)..(d - 1) : h[k] \in Digits

\* /(ICP|IC|TOC|TIT|M\d+\.|HH\+PHM|LFLFM)/.test(h.toUpperCase())
IsRelevant(h) ==
    LET u == ToUpper(h)
    IN  \/ Includes(u, sICP) \/ Includes(u, sIC) \/ Includes(u, sTOC)
        \/ Includes(u, sTIT) \/ HasMDigitsDot(u)
        \/ Includes(u, sHHPHM) \/ Includes(u, sLFLFM)

relevantHeaders(ds) == {h \in Range(ds.resultHeaders) : IsRelevant(h)}

\* a plausible slip: the value test is forgotten, every relevant header counts
rowAvailableParamsAnyValue(ds, id) ==
    {getBaseName(h) : h \in relevantHeaders(ds)}

\* the members of rowAvailableParams[row.id]
rowAvailableParams(ds, id) ==
    {getBaseName(h) : h \in {x \in relevantHeaders(ds) : HasValue(RowOf(ds, id), x)}}

\* the datasets of the input files, as parsed and as read back from JSON
\* (uploadDate is a Date after the parse and a string after JSON.parse)
ParsedFiles ==
    [n \in {f.name : f \in {x \in AllFiles : ~parseFails(x)}} |->
        parseLabDataCsv(FileNamed(n))]

Datasets ==
    Range(ParsedFiles) \cup {[d EXCEPT !.uploadDate = "string"] : d \in Range(ParsedFiles)}

\* the map the useMemo of rowAvailableParams holds for each dataset
rowAvailableParamsMemo ==
    [ds \in Datasets |-> [id \in RowIds(ds) |-> rowAvailableParams(ds, id)]]

availableParams(ds, id) == rowAvailableParamsMemo[ds][id]

\* `prev.rowParams[rowId] || new Set()`
paramsOf(sel, id) ==
    IF id \in DOMAIN sel.rowParams THEN sel.rowParams[id] ELSE {}

\* { ...prev, rowParams: { ...prev.rowParams, [rowId]: newParams } }
withRowParams(sel, id, newParams) ==
    [sel EXCEPT !.rowParams =
        [k \in (DOMAIN sel.rowParams) \cup {id} |->
            IF k = id THEN newParams ELSE sel.rowParams[k]]]

\* targetParams of toggleChemSet
chemTargets(type, available) ==
    CASE type = "P" -> {p \in available : MatchesList(p, P_NAMES)}
      [] type = "S" -> {p \in available : MatchesList(p, S_NAMES)}
      [] type = "N" -> {p \in available : MatchesList(p, N_NAMES)}

ChemTypes == {"P", "S", "N"}

\* a plausible slip: the set is added to the active parameters
chemSetAdditive(prev, targets) == prev \cup targets

\* newParams of toggleChemSet: exactly the targets
chemSetResult(prev, targets) == targets

\* a plausible slip: the targets are toggled instead of set
toggleChemSetUpdateToggling(sel, ds, rowId, type) ==
    LET targets == chemTargets(type, availableParams(ds, rowId))
        prev == paramsOf(sel, rowId)
    IN  IF targets = {} THEN sel
        ELSE withRowParams(sel, rowId, (prev \ targets) \cup (targets \ prev))

\* the selection the updater of toggleChemSet returns
toggleChemSetUpdate(sel, ds, rowId, type) ==
    LET targets == chemTargets(type, availableParams(ds, rowId))
    IN  IF targets = {} THEN sel
        ELSE withRowParams(sel, rowId, chemSetResult(paramsOf(sel, rowId), targets))

\* the selection the updater of toggleAllParamsForRow returns
toggleAllParamsUpdate(sel, ds, rowId) ==
    LET available == availableParams(ds, rowId)
        current == paramsOf(sel, rowId)
    IN  IF available \subseteq current
        THEN withRowParams(sel, rowId, current \ available)
        ELSE withRowParams(sel, rowId, current \cup available)

\* a plausible slip: the group button switches on the whole group test but
\* changes every available parameter of the row
toggleGroupUpdateWholeRow(sel, ds, rowId, g) ==
    LET paramsInGroup == {p \in availableParams(ds, rowId) : getDeviceGroup(p) = g}
        current == paramsOf(sel, rowId)
    IN  IF paramsInGroup = {} THEN sel
        ELSE IF paramsInGroup \subseteq current
        THEN withRowParams(sel, rowId, current \ availableParams(ds, rowId))
        ELSE withRowParams(sel, rowId, current \cup availableParams(ds, rowId))

\* the selection the updater of toggleGroupForRow returns
toggleGroupUpdate(sel, ds, rowId, g) ==
    LET paramsInGroup == {p \in availableParams(ds, rowId) : getDeviceGroup(p) = g}
        current == paramsOf(sel, rowId)
    IN  IF paramsInGroup = {} THEN sel
        ELSE IF paramsInGroup \subseteq current
        THEN withRowParams(sel, rowId, current \ paramsInGroup)
        ELSE withRowParams(sel, rowId, current \cup paramsInGroup)

\* the selection the updater of toggleRowParam returns
toggleRowParamUpdate(sel, rowId, baseParam) ==
    LET current == paramsOf(sel, rowId)
    IN  IF baseParam \in current
        THEN withRowParams(sel, rowId, current \ {baseParam})
        ELSE withRowParams(sel, rowId, current \cup {baseParam})

\* the DataSelection tab is rendered for a loaded dataset
SelectionTabOpen == parsedData.loaded

\* the parameter buttons of a row are rendered when the row is selected
RowButtons(rowId) ==
    /\ SelectionTabOpen
    /\ rowId \in RowIds(parsedData)
    /\ rowId \in selection.selectedRowIds

toggleRow ==
    /\ SelectionTabOpen
    /\ \E id \in RowIds(parsedData) :
        /\ selection' = [selection EXCEPT !.selectedRowIds =
                            IF id \in @ THEN @ \ {id} ELSE @ \cup {id}]
        /\ last' = [op |-> "toggleRow", arg |-> "", row |-> 0]
    /\ UNCHANGED <<parsedData, comments, isLoading, error, pending, requests, cloud>>
    /\ UNCHANGED pureVars
    /\ intervalRestarted

\* a plausible slip: every row is selected only when none is
toggleAllRowsWhenNone ==
    /\ SelectionTabOpen
    /\ selection' = [selection EXCEPT !.selectedRowIds =
                        IF @ = {} THEN RowIds(parsedData) ELSE {}]
    /\ last' = [op |-> "toggleAllRows", arg |-> "", row |-> 0]
    /\ UNCHANGED <<parsedData, comments, isLoading, error, pending, requests, cloud>>
    /\ UNCHANGED pureVars
    /\ intervalRestarted

toggleAllRows ==
    /\ SelectionTabOpen
    /\ selection' = [selection EXCEPT !.selectedRowIds =
                        IF Cardinality(@) = Len(parsedData.data)
                        THEN {} ELSE RowIds(parsedData)]
    /\ last' = [op |-> "toggleAllRows", arg |-> "", row |-> 0]
    /\ UNCHANGED <<parsedData, comments, isLoading, error, pending, requests, cloud>>
    /\ UNCHANGED pureVars
    /\ intervalRestarted

toggleRowParam ==
    /\ \E rowId \in RowIds(parsedData) :
        /\ RowButtons(rowId)
        /\ \E p \in availableParams(parsedData, rowId) :
            /\ selection' = toggleRowParamUpdate(selection, rowId, p)
            /\ last' = [op |-> "toggleRowParam", arg |-> "", row |-> 0]
    /\ UNCHANGED <<parsedData, comments, isLoading, error, pending, requests, cloud>>
    /\ UNCHANGED pureVars
    /\ intervalRestarted

toggleAllParamsForRow ==
    /\ \E rowId \in RowIds(parsedData) :
        /\ RowButtons(rowId)
        /\ selection' = toggleAllParamsUpdate(selection, parsedData, rowId)
        /\ last' = [op |-> "toggleAllParamsForRow", arg |-> "", row |-> 0]
    /\ UNCHANGED <<parsedData, comments, isLoading, error, pending, requests, cloud>>
    /\ UNCHANGED pureVars
    /\ intervalRestarted

toggleGroupForRow ==
    /\ \E rowId \in RowIds(parsedData) :
        /\ RowButtons(rowId)
        /\ \E g \in DeviceGroups :
            /\ selection' = toggleGroupUpdate(selection, parsedData, rowId, g)
            /\ last' = [op |-> "toggleGroupForRow", arg |-> "", row |-> 0]
            /\ timer' = IF {p \in availableParams(parsedData, rowId) :
                                getDeviceGroup(p) = g} = {}
                        THEN timer ELSE 0
    /\ UNCHANGED <<parsedData, comments, isLoading, error, pending, requests, cloud>>
    /\ UNCHANGED pureVars
    /\ UNCHANGED idle

toggleChemSet ==
    /\ \E rowId \in RowIds(parsedData) :
        /\ RowButtons(rowId)
        /\ \E type \in ChemTypes :
            /\ selection' = toggleChemSetUpdate(selection, parsedData, rowId, type)
            /\ last' = [op |-> "toggleChemSet", arg |-> type, row |-> rowId]
            /\ timer' = IF chemTargets(type, availableParams(parsedData, rowId)) = {}
                        THEN timer ELSE 0
    /\ UNCHANGED <<parsedData, comments, isLoading, error, pending, requests, cloud>>
    /\ UNCHANGED pureVars
    /\ UNCHANGED idle

---------------------------------------------------------------------------
(* Comments (IonBalanceAnalysis) *)

COMMENT_OPTIONS ==
    {"", "Corg>20", "NM", "Abweichung im Rahmen der NWG", "Corg>10 LTF<50",
     "durch Nachmessung bestätigt", "Grenzfall", "Probe leer",
     "keine Alkalinität bestimmt bei pH > 6", "Leitfähigkeit < 30",
     "gilt nur für Ideal verdünnte Lösungen", "anderer Grund"}

\* the options the analyst picks in the model
CommentInputs == {"NM"}

handleCommentChange(values) ==
    /\ parsedData.loaded
    /\ \E rowId \in RowIds(parsedData) : \E value \in values \cap COMMENT_OPTIONS :
        /\ comments' = [k \in (DOMAIN comments) \cup {rowId} |->
                            IF k = rowId THEN value ELSE comments[k]]
        /\ last' = [op |-> "handleCommentChange", arg |-> "", row |-> 0]
    /\ UNCHANGED <<parsedData, selection, isLoading, error, pending, requests, cloud>>
    /\ UNCHANGED pureVars
    /\ intervalRestarted

---------------------------------------------------------------------------
(* File load (App.handleFileSelect) *)

MaxPending == 2

\* the fetch calls of one session
MaxRequests == 3

\* the operations in flight
InFlight == BagToSet(pending)

Started(o) == pending (+) SetToBag({o})
Stepped(o, p) == (pending (-) SetToBag({o})) (+) SetToBag({p})
Settled(o) == pending (-) SetToBag({o})

CanStart == BagCardinality(pending) < MaxPending

\* initialRowParams[row.id]: the base names of the headers with a value
seedParams(ds, row) ==
    {getBaseName(h) : h \in {x \in Range(ds.resultHeaders) : HasValue(row, x)}}

\* a plausible slip: the rows of the new dataset start selected
initialSelectionAllRows(ds) ==
    [selectedRowIds |-> RowIds(ds),
     rowParams |-> [id \in RowIds(ds) |-> seedParams(ds, RowOf(ds, id))]]

\* the selection handleFileSelect sets: no row selected, every row seeded
initialSelection(ds) ==
    [selectedRowIds |-> {},
     rowParams |-> [id \in RowIds(ds) |-> seedParams(ds, RowOf(ds, id))]]

PARSE_ERROR == "Die Datei scheint leer zu sein oder hat nicht genügend Zeilen (Header + Daten)."

\* handleFileSelect up to `await parseLabDataCsv(file)`; the drop zone takes
\* no file while isLoading
handleFileSelect(files) ==
    /\ ~isLoading
    /\ CanStart
    /\ \E f \in files :
        /\ pending' = Started([kind |-> "parse", alert |-> FALSE, file |-> f.name,
                                stage |-> "sent", body |-> NoBlob])
        /\ last' = [op |-> "handleFileSelect", arg |-> "", row |-> 0]
    /\ isLoading' = TRUE
    /\ error' = "null"
    /\ UNCHANGED <<parsedData, selection, comments, requests, cloud>>
    /\ UNCHANGED pureVars
    /\ UNCHANGED timeVars

\* handleFileSelect after the await: the dataset is set and the selection seeded
parseResolved ==
    /\ \E o \in InFlight :
        /\ o.kind = "parse"
        /\ ~parseFails(FileNamed(o.file))
        /\ LET data == ParsedFiles[o.file]
           IN  /\ parsedData' = data
               /\ selection' = initialSelection(data)
        /\ pending' = Settled(o)
        /\ last' = [op |-> "parseResolved", arg |-> "", row |-> 0]
    /\ comments' = <<>>
    /\ isLoading' = FALSE
    /\ UNCHANGED <<error, requests, cloud>>
    /\ UNCHANGED pureVars
    /\ intervalStarted

\* a plausible slip: the catch branch also drops the dataset shown so far
parseRejectedUnsetting ==
    /\ \E o \in InFlight :
        /\ o.kind = "parse"
        /\ parseFails(FileNamed(o.file))
        /\ pending' = Settled(o)
        /\ last' = [op |-> "parseRejected", arg |-> "", row |-> 0]
    /\ error' = PARSE_ERROR
    /\ isLoading' = FALSE
    /\ parsedData' = NullData
    /\ selection' = EmptySelection
    /\ comments' = <<>>
    /\ UNCHANGED <<requests, cloud>>
    /\ UNCHANGED pureVars
    /\ UNCHANGED timeVars

\* handleFileSelect after the await, catch branch
parseRejected ==
    /\ \E o \in InFlight :
        /\ o.kind = "parse"
        /\ parseFails(FileNamed(o.file))
        /\ pending' = Settled(o)
        /\ last' = [op |-> "parseRejected", arg |-> "", row |-> 0]
    /\ error' = PARSE_ERROR
    /\ isLoading' = FALSE
    /\ UNCHANGED <<parsedData, selection, comments, requests, cloud>>
    /\ UNCHANGED pureVars
    /\ UNCHANGED timeVars

---------------------------------------------------------------------------
(* Report rows (ReportView.reportData) *)

\* localeCompare(.., undefined, {numeric: true}) on the identifiers
compareNumeric(a, b) == localeCompare(a, b)

\* the comparator of sortedRows
rowCompare(a, b) ==
    IF compareNumeric(a.seriesId, b.seriesId) # 0
    THEN compareNumeric(a.seriesId, b.seriesId)
    ELSE IF compareNumeric(a.sampleId, b.sampleId) # 0
    THEN compareNumeric(a.sampleId, b.sampleId)
    ELSE (IF a.isRepeat THEN 1 ELSE 0) - (IF b.isRepeat THEN 1 ELSE 0)

RECURSIVE insertRow(_, _)
insertRow(sorted, r) ==
    IF sorted = <<>> THEN <<r>>
    ELSE IF rowCompare(sorted[Len(sorted)], r) <= 0
         THEN Append(sorted, r)
         ELSE Append(insertRow(SubSeq(sorted, 1, Len(sorted) - 1), r),
                     sorted[Len(sorted)])

RECURSIVE sortRows(_)
sortRows(rows) ==
    IF rows = <<>> THEN <<>>
    ELSE insertRow(sortRows(SubSeq(rows, 1, Len(rows) - 1)), rows[Len(rows)])

\* a plausible slip: the rows are filtered by a non-empty active set
selectedRowsByParams(ds, sel) ==
    SelectSeq(ds.data, LAMBDA r : paramsOf(sel, r.id) # {})

\* dataset.data.filter(r => selection.selectedRowIds.has(r.id))
selectedRows(ds, sel) ==
    SelectSeq(ds.data, LAMBDA r : r.id \in sel.selectedRowIds)

\* reportData.rows
reportRows(ds, sel) == sortRows(selectedRows(ds, sel))

---------------------------------------------------------------------------
(* The selection tab, the comments and the file load, without the cloud *)

SelectionFiles == {FileA, FileB, FileShort}

\* the app after its start-up load found no saved state
SelectionInit ==
    /\ parsedData = NullData
    /\ selection = EmptySelection
    /\ comments = <<>>
    /\ isLoading = FALSE
    /\ error = "null"
    /\ pending = EmptyBag
    /\ requests = 0
    /\ cloud = NoBlob
    /\ last = [op |-> "loadFailed", arg |-> "", row |-> 0]
    /\ name = <<>>
    /\ group = "none"
    /\ active = {}
    /\ colour = NoColour
    /\ AnalysisIdle

SelectionNext ==
    \/ handleFileSelect(SelectionFiles)
    \/ parseResolved
    \/ parseRejected
    \/ toggleRow
    \/ toggleAllRows
    \/ toggleRowParam
    \/ toggleAllParamsForRow
    \/ toggleGroupForRow
    \/ toggleChemSet
    \/ handleCommentChange(CommentInputs)

SpecSelection == SelectionInit /\ [][SelectionNext]_vars

\* the name list of a chemical set
ChemList(type) ==
    IF type = "P" THEN P_NAMES ELSE IF type = "S" THEN S_NAMES ELSE N_NAMES

\* C5: the chemical-set operation on a row is exclusive-replace: when the row
\* has an available parameter matching the set's name list, its active set is
\* afterwards exactly the matching available parameters; otherwise the
\* selection is unchanged; selectedRowIds and the other rows' active sets are
\* unchanged in both cases.
C5_ChemSetExclusiveReplace ==
    [][ last'.op = "toggleChemSet" =>
          LET r == last'.row
              matching == {p \in rowAvailableParams(parsedData, r) :
                              \E x \in ChemList(last'.arg) :
                                  Includes(ToUpper(p), ToUpper(x))}
          IN  /\ matching # {} =>
                    /\ r \in DOMAIN selection'.rowParams
                    /\ selection'.rowParams[r] = matching
              /\ matching = {} => selection' = selection
              /\ selection'.selectedRowIds = selection.selectedRowIds
              /\ (DOMAIN selection'.rowParams) \ {r} = (DOMAIN selection.rowParams) \ {r}
              /\ \A k \in (DOMAIN selection.rowParams) \ {r} :
                    selection'.rowParams[k] = selection.rowParams[k]
      ]_vars

\* set P was applied to row 2 of A.csv, whose seed also held TOCTC and Corg
C5_Witness ==
    /\ last = [op |-> "toggleChemSet", arg |-> "P", row |-> 2]
    /\ parsedData.fileName = "A.csv"
    /\ selection.rowParams[2] = {nPPO4IC, nPPgesICP}
    /\ selection.rowParams[4] = {nICCa, nSSO4IC}

\* C6: the report's rows are exactly the dataset rows whose id is in
\* selectedRowIds, each once, whatever rowParams holds.
C6_ReportRowsAreSelectedRows ==
    parsedData.loaded =>
        LET rows == reportRows(parsedData, selection)
        IN  /\ {rows[i].id : i \in 1..Len(rows)}
                  = {r.id : r \in Rows(parsedData)} \cap selection.selectedRowIds
            /\ \A i, j \in 1..Len(rows) : rows[i].id = rows[j].id => i = j
            /\ \A i \in 1..Len(rows) : rows[i] \in Rows(parsedData)

\* row 2 is deselected with active parameters, row 4 is the only report row
C6_Witness ==
    /\ parsedData.fileName = "A.csv"
    /\ selection.selectedRowIds = {4}
    /\ paramsOf(selection, 2) # {}
    /\ Len(reportRows(parsedData, selection)) = 1

\* C7: right after a successful file load no row is selected, there is no
\* comment, and every row's active set is the set of base names of the
\* headers for which the row has a non-blank value.
C7_LoadSeedsSelection ==
    last.op = "parseResolved" =>
        /\ selection.selectedRowIds = {}
        /\ comments = <<>>
        /\ DOMAIN selection.rowParams = {r.id : r \in Rows(parsedData)}
        /\ \A r \in Rows(parsedData) :
              selection.rowParams[r.id] =
                  {getBaseName(parsedData.resultHeaders[k]) :
                      k \in {j \in 1..Len(parsedData.resultHeaders) :
                                Trim(r.results[parsedData.resultHeaders[j]]) # <<>>}}

\* A.csv was loaded: row 2 is seeded with its four parameters (Corg berechnet
\* among them), row 4 with two, and no row is selected
C7_Witness ==
    /\ last.op = "parseResolved"
    /\ parsedData.fileName = "A.csv"
    /\ selection.rowParams[2] = {nTOCTC, nPPO4IC, nPPgesICP, nCorg}
    /\ selection.rowParams[4] = {nICCa, nSSO4IC}
    /\ selection.selectedRowIds = {}

\* C13: a file with fewer than 3 raw rows is rejected as a whole, and a
\* rejected load shows an error message and leaves parsedData, selection and
\* comments as they were (unset when nothing was loaded before).
C13_FailedLoadKeepsState ==
    [][ \A o \in InFlight :
          (/\ o.kind = "parse"
           /\ pending' = Settled(o)
           /\ last'.op \in {"parseResolved", "parseRejected"}) =>
            /\ Len(FileNamed(o.file).rows) < 3 => last'.op = "parseRejected"
            /\ last'.op = "parseRejected" =>
                  /\ error' # "null"
                  /\ parsedData' = parsedData
                  /\ selection' = selection
                  /\ comments' = comments ]_vars

\* short.csv was rejected while A.csv was loaded with a row selected and a
\* comment set: the error is shown and A.csv is still there
C13_Witness ==
    /\ last.op = "parseRejected"
    /\ error = PARSE_ERROR
    /\ parsedData.fileName = "A.csv"
    /\ selection.selectedRowIds = {2}
    /\ DOMAIN comments = {4}

---------------------------------------------------------------------------
(* Cloud persistence (App.saveToCloud, App.loadFromCloud, api/saveState,   *)
(* api/getState)                                                           *)

RECURSIVE SortedSeq(_)
SortedSeq(set) ==
    IF set = {} THEN <<>>
    ELSE LET m == CHOOSE x \in set : \A y \in set : x <= y
         IN  <<m>> \o SortedSeq(set \ {m})

\* Array.from(set)
ArrayFrom(set) == JsonArray(SortedSeq(set))

\* JSON.stringify of a Set: a Set has no enumerable own property, so it is
\* written as {}
JsonOfSet(set) == JsonObject(<<>>)

\* JSON.stringify of the dataset: the Date is written as a string
JsonOfDataset(ds) == [ds EXCEPT !.uploadDate = IF ds.loaded THEN "string" ELSE @]

\* the body saveToCloud posts; `source` keeps the in-memory state the body
\* was made from (history, not sent)
saveBody ==
    [stored |-> TRUE,
     parsedData |-> JsonOfDataset(parsedData),
     comments |-> comments,
     selection |->
        [selectedRowIds |-> ArrayFrom(selection.selectedRowIds),
         rowParams |-> [id \in DOMAIN selection.rowParams |->
                            JsonOfSet(selection.rowParams[id])]],
     source |-> [parsedData |-> parsedData, comments |-> comments,
                 selection |-> selection]]

\* new Set(value) throws a TypeError unless value is iterable
IsIterable(json) == json.kind = "array"

\* new Set(array)
NewSet(json) == {json.items[i] : i \in DOMAIN json.items}

\* loadFromCloud throws while it restores the selection
restoreThrows(data) ==
    \E id \in DOMAIN data.selection.rowParams : ~IsIterable(data.selection.rowParams[id])

\* newSelection of loadFromCloud
restoredSelection(data) ==
    [selectedRowIds |-> NewSet(data.selection.selectedRowIds),
     rowParams |-> [id \in DOMAIN data.selection.rowParams |->
                        NewSet(data.selection.rowParams[id])]]

Request(kind, alert) ==
    [kind |-> kind, alert |-> alert, file |-> "", stage |-> "sent", body |-> NoBlob]

\* the "In Cloud speichern" button (disabled while isLoading or without data)
manualSave ==
    /\ ~isLoading
    /\ parsedData.loaded
    /\ CanStart
    /\ requests < MaxRequests
    /\ requests' = requests + 1
    /\ isLoading' = TRUE
    /\ pending' = Started([Request("save", TRUE) EXCEPT !.body = saveBody])
    /\ last' = [op |-> "manualSave", arg |-> "", row |-> 0]
    /\ UNCHANGED <<parsedData, selection, comments, error, cloud>>
    /\ UNCHANGED pureVars
    /\ idle' = 0
    /\ UNCHANGED timer

\* a tick of the 120 s interval, which exists while a dataset is loaded
periodicSave ==
    /\ parsedData.loaded
    /\ CanStart
    /\ requests < MaxRequests
    /\ requests' = requests + 1
    /\ isLoading' = TRUE
    /\ pending' = Started([Request("save", FALSE) EXCEPT !.body = saveBody])
    /\ last' = [op |-> "periodicSave", arg |-> "", row |-> 0]
    /\ UNCHANGED <<parsedData, selection, comments, error, cloud>>
    /\ UNCHANGED pureVars
    /\ timer' = 0
    /\ idle' = 0

\* the "Aus Cloud laden" button (disabled while isLoading)
manualLoad ==
    /\ ~isLoading
    /\ CanStart
    /\ requests < MaxRequests
    /\ requests' = requests + 1
    /\ isLoading' = TRUE
    /\ pending' = Started(Request("load", TRUE))
    /\ last' = [op |-> "manualLoad", arg |-> "", row |-> 0]
    /\ UNCHANGED <<parsedData, selection, comments, error, cloud>>
    /\ UNCHANGED pureVars
    /\ UNCHANGED timeVars

\* api/saveState: put('shared-state.json', ..) overwrites the blob, or fails
saveStateHandler ==
    /\ \E o \in InFlight :
        /\ o.kind = "save" /\ o.stage = "sent"
        /\ \/ /\ cloud' = o.body
              /\ pending' = Stepped(o, [o EXCEPT !.stage = "ok"])
           \/ /\ cloud' = cloud
              /\ pending' = Stepped(o, [o EXCEPT !.stage = "notOk"])
    /\ last' = [op |-> "saveStateHandler", arg |-> "", row |-> 0]
    /\ UNCHANGED <<parsedData, selection, comments, isLoading, error, requests>>
    /\ UNCHANGED pureVars
    /\ UNCHANGED timeVars

\* api/getState: 404 without a blob, else the blob, or a failure
getStateHandler ==
    /\ \E o \in InFlight :
        /\ o.kind = "load" /\ o.stage = "sent"
        /\ \/ /\ cloud.stored
              /\ pending' = Stepped(o, [o EXCEPT !.stage = "ok", !.body = cloud])
           \/ pending' = Stepped(o, [o EXCEPT !.stage = "notOk"])
    /\ last' = [op |-> "getStateHandler", arg |-> "", row |-> 0]
    /\ UNCHANGED <<parsedData, selection, comments, isLoading, error, requests, cloud>>
    /\ UNCHANGED pureVars
    /\ UNCHANGED timeVars

\* fetch rejects: the request or its response is lost
networkFailure ==
    /\ \E o \in InFlight :
        /\ o.kind \in {"save", "load"}
        /\ o.stage \in {"sent", "ok", "notOk"}
        /\ pending' = Stepped(o, [o EXCEPT !.stage = "rejected", !.body = NoBlob])
    /\ last' = [op |-> "networkFailure", arg |-> "", row |-> 0]
    /\ UNCHANGED <<parsedData, selection, comments, isLoading, error, requests, cloud>>
    /\ UNCHANGED pureVars
    /\ UNCHANGED timeVars

\* saveToCloud after the await: only the loading flag changes
saveSettled ==
    /\ \E o \in InFlight :
        /\ o.kind = "save" /\ o.stage \in {"ok", "notOk", "rejected"}
        /\ pending' = Settled(o)
        /\ last' = [op |-> "saveSettled", arg |-> o.stage, row |-> 0]
    /\ isLoading' = FALSE
    /\ UNCHANGED <<parsedData, selection, comments, error, requests, cloud>>
    /\ UNCHANGED pureVars
    /\ UNCHANGED timeVars

\* loadFromCloud after the await, response not ok or fetch rejected
loadFailed ==
    /\ \E o \in InFlight :
        /\ o.kind = "load" /\ o.stage \in {"notOk", "rejected"}
        /\ pending' = Settled(o)
        /\ last' = [op |-> "loadFailed", arg |-> o.stage, row |-> 0]
    /\ isLoading' = FALSE
    /\ UNCHANGED <<parsedData, selection, comments, error, requests, cloud>>
    /\ UNCHANGED pureVars
    /\ UNCHANGED timeVars

\* loadFromCloud after the await, response ok: the dataset and the comments
\* are set, then the selection is restored; an exception on the way is caught
loadApplied ==
    /\ \E o \in InFlight :
        /\ o.kind = "load" /\ o.stage = "ok"
        /\ parsedData' = o.body.parsedData
        /\ comments' = o.body.comments
        /\ IF restoreThrows(o.body)
           THEN /\ selection' = selection
                /\ last' = [op |-> "loadApplied", arg |-> "catch", row |-> 0]
           ELSE /\ selection' = restoredSelection(o.body)
                /\ last' = [op |-> "loadApplied", arg |-> "ok", row |-> 0]
        /\ pending' = Settled(o)
    /\ isLoading' = FALSE
    /\ UNCHANGED <<error, requests, cloud>>
    /\ UNCHANGED pureVars
    /\ intervalStarted

---------------------------------------------------------------------------
(* The app *)

Files == {FileC, FileE, FileShort}

\* after the first render: the start-up effect has called loadFromCloud(false)
Init ==
    /\ parsedData = NullData
    /\ selection = EmptySelection
    /\ comments = <<>>
    /\ isLoading = TRUE
    /\ error = "null"
    /\ pending = SetToBag({Request("load", FALSE)})
    /\ requests = 1
    /\ cloud = NoBlob
    /\ last = [op |-> "mount", arg |-> "", row |-> 0]
    /\ name = <<>>
    /\ group = "none"
    /\ active = {}
    /\ colour = NoColour
    /\ AnalysisIdle

Next ==
    \/ handleFileSelect(Files)
    \/ parseResolved
    \/ parseRejected
    \/ toggleRow
    \/ toggleAllRows
    \/ toggleRowParam
    \/ toggleAllParamsForRow
    \/ toggleGroupForRow
    \/ toggleChemSet
    \/ handleCommentChange(CommentInputs)
    \/ manualSave
    \/ periodicSave
    \/ manualLoad
    \/ saveStateHandler
    \/ getStateHandler
    \/ networkFailure
    \/ saveSettled
    \/ loadFailed
    \/ loadApplied

Spec == Init /\ [][Next]_vars

\* the continuation of a cloud save or load that ran in this step was one of
\* a failed operation: response not ok, fetch rejected, or an exception
FailedPersistenceStep ==
    \/ last'.op = "loadFailed"
    \/ last'.op = "saveSettled" /\ last'.arg \in {"notOk", "rejected"}
    \/ last'.op = "loadApplied" /\ last'.arg = "catch"

\* C8: a failed cloud load or save leaves parsedData, comments and the
\* selection as they were.
C8_FailedPersistenceKeepsState ==
    [][ (FailedPersistenceStep /\ pending' # pending) =>
            /\ parsedData' = parsedData
            /\ comments' = comments
            /\ selection' = selection ]_vars

\* C9: a load returns the saved state: the selection has the saved
\* selectedRowIds and, for every row, the saved active set; the comments and
\* the dataset rows are the saved ones.
C9_SaveLoadRoundTrip ==
    [][ (last'.op = "loadApplied" /\ pending' # pending) =>
          \A o \in InFlight :
            (o.kind = "load" /\ o.stage = "ok" /\ pending' = Settled(o)) =>
                LET saved == o.body.source
                IN  /\ selection'.selectedRowIds = saved.selection.selectedRowIds
                    /\ \A id \in RowIds(saved.parsedData) :
                          paramsOf(selection', id) = paramsOf(saved.selection, id)
                    /\ comments' = saved.comments
                    /\ parsedData'.data = saved.parsedData.data ]_vars

\* the fetch calls of saveToCloud and loadFromCloud that have no response yet
AwaitingResponse ==
    {o \in InFlight : o.kind \in {"save", "load"} /\ o.stage = "sent"}

\* C10: no two of periodic save, manual save, manual load and start-up load
\* await their response at the same time.
C10_NoConcurrentPersistence ==
    /\ Cardinality(AwaitingResponse) <= 1
    /\ \A o \in AwaitingResponse : CopiesIn(o, pending) = 1

\* an automatic save (no alert) that was started for a dataset which a later
\* file load has replaced, and whose request body is still on its way
StalePeriodicSave(o) ==
    /\ o.kind = "save"
    /\ ~o.alert
    /\ o.stage \in {"sent", "ok", "notOk"}
    /\ parsedData.loaded
    /\ parsedData.uploadDate = "Date"
    /\ o.body.source.parsedData # parsedData

\* C11: once a new file is loaded, the completion of a periodic save of the
\* previous dataset changes nothing in memory, the loading flag included, and
\* the store does not replace a state saved for the new dataset by the state
\* of the previous one.
C11_StaleSaveIgnored ==
    [][ \A o \in InFlight :
          StalePeriodicSave(o) =>
            /\ (last'.op = "saveSettled" /\ pending' = Settled(o)) =>
                    /\ isLoading' = isLoading
                    /\ parsedData' = parsedData
                    /\ selection' = selection
                    /\ comments' = comments
            /\ (/\ last'.op = "saveStateHandler"
                /\ pending' = Stepped(o, [o EXCEPT !.stage = "ok"])
                /\ cloud.stored
                /\ cloud.source.parsedData = parsedData) =>
                    cloud' = cloud ]_vars

---------------------------------------------------------------------------
(* Ingestion as a function of the file: every file made of a title row, a  *)
(* header row with three result columns and up to MaxDataRows data rows    *)

MaxDataRows == 2

hA == <<"A">>
hB == <<"B">>
hApadded == <<" ", "A", " ">>

\* the header cells of a result column: two names, one of them also padded,
\* and a blank cell
HeaderCells == {hA, hB, hApadded, E}

c1 == <<"1">>
c2 == <<" ", "2">>
c3 == <<"3", " ">>

\* a full row, a row that ends after its first result cell, a row with one
\* cell and a full repeat row whose first result cell is blank
DataRowPool ==
    { RawRow(<<"S", "1">>, <<"P", "1">>, <<"1">>, <<c1, c2, c3>>),
      RawRow(<<"S", "1">>, <<"P", "2">>, E, <<c3>>),
      << <<"x">> >>,
      RawRow(<<"S", "2">>, <<"P", "1">>, <<"2", " ">>, <<vBlank, c1, c2>>) }

RECURSIVE SeqsUpTo(_, _)
SeqsUpTo(pool, n) ==
    IF n = 0 THEN {<<>>}
    ELSE LET shorter == SeqsUpTo(pool, n - 1)
         IN  shorter \cup {Append(q, x) : q \in shorter, x \in pool}

IngestFiles ==
    { [name |-> "in.csv", readError |-> FALSE,
       rows |-> <<TitleRow[1], RawRow(E, E, E, <<h1, h2, h3>>)>> \o dataRows] :
         h1 \in HeaderCells, h2 \in HeaderCells, h3 \in HeaderCells,
         dataRows \in SeqsUpTo(DataRowPool, MaxDataRows) }

IngestInit ==
    /\ AppConstructed
    /\ name = <<>>
    /\ group = "none"
    /\ active = {}
    /\ colour = NoColour
    /\ rawFile \in IngestFiles
    /\ processedData = <<>>
    /\ csvRows = <<>>
    /\ ibRows = <<>>
    /\ timer = 0
    /\ idle = 0

\* a call of parseLabDataCsv(rawFile): the promise resolves with the dataset
\* or rejects with the error
ingest ==
    /\ ~parsedData.loaded
    /\ error = "null"
    /\ IF parseFails(rawFile)
       THEN /\ error' = PARSE_ERROR
            /\ parsedData' = parsedData
       ELSE /\ parsedData' = parseLabDataCsv(rawFile)
            /\ error' = error
    /\ UNCHANGED <<selection, comments, isLoading, pending, requests, cloud, last>>
    /\ UNCHANGED pureVars
    /\ UNCHANGED timeVars

IngestNext == ingest

SpecIngest == IngestInit /\ [][IngestNext]_vars

\* the raw row a record was made from (its id is the index of that row)
RawRowOf(r) == At(rawFile.rows, r.id)

\* the header row of the ingested file
RawHeaderRow == At(rawFile.rows, headerRowIndex)

\* the columns of the header row that carry the trimmed name h
ColumnsNamed(h) ==
    {c \in resultStartIndex..(Len(RawHeaderRow) - 1) : Trim(At(RawHeaderRow, c)) = h}

\* C14: in every ingested dataset the key set of each record's results is
\* the set of names in resultHeaders, also with a header text that occurs in
\* two columns; a header whose columns are all missing or blank in the row
\* has the empty string.
C14_ResultKeysAreHeaders ==
    parsedData.loaded =>
        \A r \in Rows(parsedData) :
            /\ DOMAIN r.results = Range(parsedData.resultHeaders)
            /\ \A h \in Range(parsedData.resultHeaders) :
                  (\A c \in ColumnsNamed(h) : CellTrim(RawRowOf(r), c) = <<>>)
                      => r.results[h] = <<>>

\* the header A occurs in two columns and a record was made from the row that
\* ends after its first result cell
C14_Witness ==
    /\ parsedData.loaded
    /\ parsedData.resultHeaders = <<hA, hA, hB>>
    /\ \E r \in Rows(parsedData) :
          /\ Len(RawRowOf(r)) = resultStartIndex + 1
          /\ DOMAIN r.results = {hA, hB}
          /\ r.results[hB] = <<>>

\* C15: for every record and every non-blank header cell at column c >= 7
\* the record's value for that header is the trimmed cell at column c of the
\* record's row; the records are in file order and stand for exactly the
\* data rows with at least 2 cells.
C15_LookupByOriginalColumn ==
    parsedData.loaded =>
        /\ \A r \in Rows(parsedData) :
              \A c \in resultStartIndex..(Len(RawHeaderRow) - 1) :
                  Trim(At(RawHeaderRow, c)) # <<>> =>
                      r.results[Trim(At(RawHeaderRow, c))] = CellTrim(RawRowOf(r), c)
        /\ \A i, j \in 1..Len(parsedData.data) :
              i < j => parsedData.data[i].id < parsedData.data[j].id
        /\ RowIds(parsedData) =
              {i \in dataStartIndex..(Len(rawFile.rows) - 1) : Len(At(rawFile.rows, i)) >= 2}

---------------------------------------------------------------------------
(* Numbers.  A JavaScript number that comes from a decimal cell is kept as *)
(* the decimal fraction num/den (den a power of ten) that the binary64     *)
(* value is nearest to; NaN is a value of its own.  Where the binary64     *)
(* value and the decimal differ in effect (a tie of toFixed, a quotient    *)
(* that meets a band limit) the outcome is taken from the binary64 tables  *)
(* below.  Cells with an exponent or "Infinity" are not modelled.          *)

NaN == [nan |-> TRUE, num |-> 0, den |-> 1]
Num(n, d) == [nan |-> FALSE, num |-> n, den |-> d]
isNaN(x) == x.nan

RECURSIVE Pow10(_)
Pow10(n) == IF n = 0 THEN 1 ELSE 10 * Pow10(n - 1)

DigitChars == <<"0", "1", "2", "3", "4", "5", "6", "7", "8", "9">>
DigitValue(c) == (CHOOSE i \in 1..10 : DigitChars[i] = c) - 1

\* the number of digits of s from position i on
RECURSIVE DigitRun(_, _)
DigitRun(s, i) ==
    IF i <= Len(s) /\ s[i] \in Digits THEN 1 + DigitRun(s, i + 1) ELSE 0

\* the value of the digit string s
RECURSIVE DigitsValue(_)
DigitsValue(s) ==
    IF s = <<>> THEN 0
    ELSE 10 * DigitsValue(SubSeq(s, 1, Len(s) - 1)) + DigitValue(s[Len(s)])

\* parseFloat: leading white space, a sign, then the longest prefix
\* <digits>[.<digits>] or .<digits>; NaN without such a prefix
parseFloat(str) ==
    LET s == TrimLeft(str)
        signed == s # <<>> /\ s[1] \in {"+", "-"}
        start == IF signed THEN 2 ELSE 1
        ni == DigitRun(s, start)
        dot == start + ni <= Len(s) /\ s[start + ni] = "."
        nf == IF dot THEN DigitRun(s, start + ni + 1) ELSE 0
        magnitude == DigitsValue(SubSeq(s, start, start + ni - 1)) * Pow10(nf)
                        + DigitsValue(SubSeq(s, start + ni + 1, start + ni + nf))
    IN  IF ni = 0 /\ nf = 0 THEN NaN
        ELSE Num(IF signed /\ s[1] = "-" THEN 0 - magnitude ELSE magnitude, Pow10(nf))

\* val.replace(',', '.'): the first comma only
ReplaceFirstComma(s) ==
    IF \E i \in 1..Len(s) : s[i] = ","
    THEN LET i == CHOOSE j \in 1..Len(s) :
                     s[j] = "," /\ \A k \in 1..(j - 1) : s[k] # ","
         IN  [s EXCEPT ![i] = "."]
    ELSE s

parseGermanFloat(val) ==
    IF val = <<>> THEN NaN ELSE parseFloat(Trim(ReplaceFirstComma(val)))

\* x > n, x >= n and x < n for an integer n (false for NaN)
Greater(x, n) == ~x.nan /\ x.num > n * x.den
AtLeast(x, n) == ~x.nan /\ x.num >= n * x.den
Less(x, n) == ~x.nan /\ x.num < n * x.den

Abs(n) == IF n < 0 THEN 0 - n ELSE n

\* binary64: the thousandths k below 2000 with last digit 5 whose nearest
\* binary64 value lies below k/1000 (for the others it lies above, or k/1000
\* is a binary fraction)
Binary64Below ==
    {15, 45, 75, 105, 145, 155, 175, 185, 205, 215, 235, 245, 285, 295, 305,
     345, 355, 365, 415, 425, 435, 475, 485, 495, 565, 575, 585, 595, 605,
     615, 695, 705, 715, 725, 735, 745, 815, 825, 835, 845, 855, 865, 945,
     955, 965, 975, 985, 995, 1005, 1015, 1025, 1035, 1045, 1055, 1065, 1075,
     1085, 1095, 1105, 1115, 1255, 1265, 1275, 1285, 1295, 1305, 1315, 1325,
     1335, 1345, 1355, 1365, 1505, 1515, 1525, 1535, 1545, 1555, 1565, 1575,
     1585, 1595, 1605, 1615, 1755, 1765, 1775, 1785, 1795, 1805, 1815, 1825,
     1835, 1845, 1855, 1865}

\* Number.prototype.toFixed(2) as hundredths: the integer n with n/100
\* nearest to the binary64 value, the larger one when both are as near
toFixed2(x) ==
    LET scaled == Abs(x.num) * 100
        q == scaled \div x.den
        r == scaled % x.den
        n == IF 2 * r < x.den THEN q
             ELSE IF 2 * r > x.den THEN q + 1
             ELSE IF (Abs(x.num) * 1000) \div x.den \in Binary64Below THEN q
             ELSE q + 1
    IN  IF x.num < 0 THEN 0 - n ELSE n

\* decimal round-half-up to hundredths
RoundHalfUp2(x) ==
    LET scaled == Abs(x.num) * 100
        q == scaled \div x.den
        n == IF 2 * (scaled % x.den) >= x.den THEN q + 1 ELSE q
    IN  IF x.num < 0 THEN 0 - n ELSE n

\* digits of a natural number
RECURSIVE NatToString(_)
NatToString(n) ==
    IF n < 10 THEN <<DigitChars[n + 1]>>
    ELSE NatToString(n \div 10) \o <<DigitChars[(n % 10) + 1]>>

\* the string val.toFixed(2)
toFixedString2(x) ==
    LET n == toFixed2(x)
        m == Abs(n)
    IN  (IF x.num < 0 THEN <<"-">> ELSE <<>>)
            \o NatToString(m \div 100) \o <<".">>
            \o <<DigitChars[((m \div 10) % 10) + 1], DigitChars[(m % 10) + 1]>>

---------------------------------------------------------------------------
(* Ion balance (IonBalanceAnalysis.processedData and sheet 2 of           *)
(* ReportView.handleExcelExport).  Remarks and comments are kept as the    *)
(* strings of the code; of a table row the model keeps the sample, the     *)
(* repeat mark, the conductivity shown, the remark and the comment.        *)

sCorg == nCorg
sCond31 == nLFLFLFM \o s31
sCond13 == nLFLFLFM \o <<"1", ".", "3">>
sQuotientIons ==
    <<"Q","u","o","t","i","e","n","t"," ","K","a","t","i","o","n","e","n"," ",
      "A","n","i","o","n","e","n"," ","N","F","V">>
sTheoCond ==
    <<"T","h","e","o"," ","e","l","e","k","t"," ","L","e","i","t"," ",
      "(","E","U",")"," ","k","o","r","r">>

\* headers.find(h => h === name) || ''
findHeader(ds, headerName) ==
    IF headerName \in Range(ds.resultHeaders) THEN headerName ELSE <<>>

\* col ? row.results[col] : ''
valueOf(row, col) == IF col # <<>> THEN row.results[col] ELSE <<>>

\* valCond: the 3.1 channel, else the 1.3 channel, else ''
valCond(val31, val13) ==
    IF Trim(val31) # <<>> THEN val31
    ELSE IF Trim(val13) # <<>> THEN val13
    ELSE <<>>

isCondFallback(val31, val13) == Trim(val31) = <<>> /\ Trim(val13) # <<>>

\* !isNaN(n) ? parseFloat(n.toFixed(2)) : NaN
roundedQuotientIons(numQuotientIons) ==
    IF ~isNaN(numQuotientIons) THEN parseFloat(toFixedString2(numQuotientIons))
    ELSE NaN

\* !isNaN(r) && r >= 0.9 && r <= 1.1
isIbOk(rounded) ==
    /\ ~isNaN(rounded)
    /\ rounded.num * 10 >= 9 * rounded.den
    /\ rounded.num * 10 <= 11 * rounded.den

\* !isNaN(numCond) && !isNaN(numTheoCond) && numTheoCond !== 0
hasCondQuotient(numCond, numTheoCond) ==
    ~isNaN(numCond) /\ ~isNaN(numTheoCond) /\ numTheoCond.num # 0

Sign(n) == IF n < 0 THEN -1 ELSE IF n > 0 THEN 1 ELSE 0

Milli(x) == (x.num * 1000) \div x.den

\* binary64: operand pairs <<measured, theoretical>> in thousandths whose
\* decimal quotient is a band limit while the binary64 quotient lies above
\* it (10.8 / 9.0 = 1.2000000000000002) or below it (1.2 / 1.5 =
\* 0.7999999999999999); for the other pairs of the model the binary64
\* quotient compares with the limit as the decimal one does
Binary64QuotientAbove == {<<10800, 9000>>, <<5400, 4500>>}
Binary64QuotientBelow == {<<1200, 1500>>, <<8100, 9000>>}

\* calculatedCondQuotient against the literal tenths/10: -1, 0 or 1
compareQuotient(numCond, numTheoCond, tenths) ==
    LET exact == Sign(numCond.num * numTheoCond.den * 10
                        - tenths * numTheoCond.num * numCond.den)
                    * Sign(numTheoCond.num)
        pair == <<Milli(numCond), Milli(numTheoCond)>>
    IN  IF exact # 0 THEN exact
        ELSE IF pair \in Binary64QuotientAbove THEN 1
        ELSE IF pair \in Binary64QuotientBelow THEN -1
        ELSE 0

\* calculatedCondQuotient >= lo/10 && calculatedCondQuotient <= hi/10
inBand(numCond, numTheoCond, lo, hi) ==
    /\ compareQuotient(numCond, numTheoCond, lo) >= 0
    /\ compareQuotient(numCond, numTheoCond, hi) <= 0

isLfOk(numCond, numTheoCond) ==
    /\ hasCondQuotient(numCond, numTheoCond)
    /\ IF Greater(numCond, 20) THEN inBand(numCond, numTheoCond, 9, 11)
       ELSE IF AtLeast(numCond, 10) THEN inBand(numCond, numTheoCond, 8, 12)
       ELSE inBand(numCond, numTheoCond, 7, 13)

\* a plausible slip: a missing conductivity quotient counts as valid
bemerkungMissingLfOk(isRepeat, hasIbData, hasLfData, ibOk, lfOk) ==
    IF isRepeat THEN ""
    ELSE IF hasIbData
    THEN IF ibOk /\ (lfOk \/ ~hasLfData) THEN "ok"
         ELSE IF ibOk THEN "IB ok, LF nicht"
         ELSE IF lfOk THEN "IB nicht ok ; LF ok"
         ELSE "IB nicht ok + LF nicht ok"
    ELSE ""

\* bem
bemerkung(isRepeat, hasIbData, hasLfData, ibOk, lfOk) ==
    IF isRepeat THEN ""
    ELSE IF hasIbData /\ hasLfData
    THEN IF ibOk /\ lfOk THEN "ok"
         ELSE IF ibOk /\ ~lfOk THEN "IB ok, LF nicht"
         ELSE IF ~ibOk /\ lfOk THEN "IB nicht ok ; LF ok"
         ELSE "IB nicht ok + LF nicht ok"
    ELSE IF hasIbData /\ ~hasLfData
    THEN IF ibOk THEN "IB ok" ELSE "IB nicht ok"
    ELSE ""

\* a plausible slip: the Corg/LF case is tested before Corg > 20
autoCommentCondFirst(isRepeat, ibOk, lfOk, numCorg, numCond) ==
    LET isDeviation == ~ibOk \/ ~lfOk
    IN  IF isRepeat THEN ""
        ELSE IF isDeviation /\ Greater(numCorg, 10) /\ Less(numCond, 50)
        THEN "Corg>10 LTF<50"
        ELSE IF isDeviation /\ Greater(numCorg, 20) THEN "Corg>20"
        ELSE IF Greater(numCond, 300) /\ ~lfOk
        THEN "gilt nur für Ideal verdünnte Lösungen"
        ELSE IF isDeviation /\ Less(numCond, 30) THEN "Leitfähigkeit < 30"
        ELSE ""

\* autoComment
autoComment(isRepeat, ibOk, lfOk, numCorg, numCond) ==
    LET isDeviation == ~ibOk \/ ~lfOk
    IN  IF isRepeat THEN ""
        ELSE IF isDeviation /\ ~isNaN(numCorg) /\ Greater(numCorg, 20) THEN "Corg>20"
        ELSE IF isDeviation /\ ~isNaN(numCorg) /\ Greater(numCorg, 10)
                    /\ ~isNaN(numCond) /\ Less(numCond, 50)
        THEN "Corg>10 LTF<50"
        ELSE IF ~isNaN(numCond) /\ Greater(numCond, 300) /\ ~lfOk
        THEN "gilt nur für Ideal verdünnte Lösungen"
        ELSE IF isDeviation /\ ~isNaN(numCond) /\ Less(numCond, 30)
        THEN "Leitfähigkeit < 30"
        ELSE ""

\* the comparator of sorted / ibSorted: localeCompare(.., undefined,
\* {numeric: true, sensitivity: 'base'}) on sampleId, then isRepeat
ionCompare(a, b) ==
    IF CompareLevel(a.sampleId, b.sampleId, 1) # 0
    THEN CompareLevel(a.sampleId, b.sampleId, 1)
    ELSE (IF a.isRepeat THEN 1 ELSE 0) - (IF b.isRepeat THEN 1 ELSE 0)

RECURSIVE ionInsert(_, _)
ionInsert(sorted, r) ==
    IF sorted = <<>> THEN <<r>>
    ELSE IF ionCompare(sorted[Len(sorted)], r) <= 0
         THEN Append(sorted, r)
         ELSE Append(ionInsert(SubSeq(sorted, 1, Len(sorted) - 1), r),
                     sorted[Len(sorted)])

RECURSIVE ionSorted(_)
ionSorted(rows) ==
    IF rows = <<>> THEN <<>>
    ELSE ionInsert(ionSorted(SubSeq(rows, 1, Len(rows) - 1)), rows[Len(rows)])

\* one element of processedData
processedRow(ds, row) ==
    LET valCorg == valueOf(row, findHeader(ds, sCorg))
        numCorg == parseGermanFloat(valCorg)
        val31 == valueOf(row, findHeader(ds, sCond31))
        val13 == valueOf(row, findHeader(ds, sCond13))
        cond == valCond(val31, val13)
        numQuotientIons == parseGermanFloat(valueOf(row, findHeader(ds, sQuotientIons)))
        numTheoCond == parseGermanFloat(valueOf(row, findHeader(ds, sTheoCond)))
        rounded == roundedQuotientIons(numQuotientIons)
        ibOk == isIbOk(rounded)
        numCond == parseGermanFloat(cond)
        lfOk == isLfOk(numCond, numTheoCond)
    IN  [id |-> row.id,
         sampleId |-> row.sampleId,
         isRepeat |-> row.isRepeat,
         display |->
            [corg |-> valCorg,
             cond |-> cond,
             isCondFallback |-> isCondFallback(val31, val13),
             bemerkung |-> bemerkung(row.isRepeat, ~isNaN(rounded),
                                     hasCondQuotient(numCond, numTheoCond), ibOk, lfOk),
             autoComment |-> autoComment(row.isRepeat, ibOk, lfOk, numCorg, numCond)]]

\* processedData of a dataset
processedDataOf(ds) ==
    LET sorted == ionSorted(ds.data)
    IN  [i \in 1..Len(sorted) |-> processedRow(ds, sorted[i])]

\* `comments[row.id]` is falsy: no entry, or the empty string
NoComment(map, id) == id \notin DOMAIN map \/ map[id] = ""

\* the updater of the seeding effect
seededComments(prev, processed) ==
    LET seeded == {i \in 1..Len(processed) :
                      /\ processed[i].display.autoComment # ""
                      /\ NoComment(prev, processed[i].id)}
        ids == {processed[i].id : i \in seeded}
    IN  [k \in (DOMAIN prev) \cup ids |->
            IF k \in ids
            THEN processed[CHOOSE i \in seeded : processed[i].id = k].display.autoComment
            ELSE prev[k]]

\* comments[row.id] || fallback
commentOr(map, id, fallback) == IF NoComment(map, id) THEN fallback ELSE map[id]

\* one data line of the CSV export
csvRow(row, map) ==
    [id |-> row.id,
     sampleId |-> row.sampleId,
     wdh |-> IF row.isRepeat THEN "ja" ELSE "nein",
     cond |-> row.display.cond,
     bemerkung |-> row.display.bemerkung,
     comment |-> commentOr(map, row.id, "")]

\* one data row of sheet 2 ("Ionenbilanz") of the spreadsheet
ibRow(ds, row, map) ==
    LET numCorg == parseGermanFloat(valueOf(row, findHeader(ds, sCorg)))
        v31 == valueOf(row, findHeader(ds, sCond31))
        v13 == valueOf(row, findHeader(ds, sCond13))
        cond == IF Trim(v31) # <<>> THEN v31 ELSE IF Trim(v13) # <<>> THEN v13 ELSE <<>>
        nQI == parseGermanFloat(valueOf(row, findHeader(ds, sQuotientIons)))
        rQI == IF ~isNaN(nQI) THEN parseFloat(toFixedString2(nQI)) ELSE NaN
        ibOk == isIbOk(rQI)
        nCond == parseGermanFloat(cond)
        nTheo == parseGermanFloat(valueOf(row, findHeader(ds, sTheoCond)))
        lfOk == isLfOk(nCond, nTheo)
        bem == IF row.isRepeat THEN ""
               ELSE IF ~isNaN(rQI) /\ hasCondQuotient(nCond, nTheo)
               THEN IF ibOk /\ lfOk THEN "ok"
                    ELSE IF ibOk /\ ~lfOk THEN "IB ok, LF nicht"
                    ELSE IF ~ibOk /\ lfOk THEN "IB nicht ok ; LF ok"
                    ELSE "IB nicht ok + LF nicht ok"
               ELSE IF ~isNaN(rQI) THEN (IF ibOk THEN "IB ok" ELSE "IB nicht ok")
               ELSE ""
        isDeviation == ~ibOk \/ ~lfOk
        auto == IF row.isRepeat THEN ""
                ELSE IF isDeviation /\ ~isNaN(numCorg) /\ Greater(numCorg, 20)
                THEN "Corg>20"
                ELSE IF isDeviation /\ ~isNaN(numCorg) /\ Greater(numCorg, 10)
                            /\ ~isNaN(nCond) /\ Less(nCond, 50)
                THEN "Corg>10 LTF<50"
                ELSE IF ~isNaN(nCond) /\ Greater(nCond, 300) /\ ~lfOk
                THEN "gilt nur für Ideal verdünnte Lösungen"
                ELSE IF isDeviation /\ ~isNaN(nCond) /\ Less(nCond, 30)
                THEN "Leitfähigkeit < 30"
                ELSE ""
    IN  [id |-> row.id,
         sampleId |-> row.sampleId,
         wdh |-> IF row.isRepeat THEN "ja" ELSE "nein",
         cond |-> cond,
         bemerkung |-> bem,
         autoComment |-> auto,
         comment |-> commentOr(map, row.id, auto)]

---------------------------------------------------------------------------
(* The ion-balance tab and the two exports on a loaded file *)

\* the ion-balance columns of the input files, in file order
IonHeaderCells == <<sCorg, sCond31, sCond13, sQuotientIons, sTheoCond>>

\* a file with the given header cells and data rows
IonFile(headerCells, dataRows) ==
    [name |-> "ion.csv", readError |-> FALSE,
     rows |-> <<TitleRow, RawRow(E, E, E, headerCells)>> \o dataRows]

\* a data row of sample "1" with its repeat cell and the five cells
IonRow(repeat, corg, cond, quotient, theo) ==
    RawRow(<<"S">>, <<"1">>, repeat, <<corg, cond[1], cond[2], quotient, theo>>)

\* cells of "Quotient Kationen Anionen NFV"
QuotientCells ==
    {E, <<"x">>,
     <<"1", ",", "0", "0", "4">>, <<"1", ",", "1", "1", "4">>,
     <<"0", ",", "9", "0">>, <<"1", ",", "1", "0">>,
     <<"1", ",", "1", "0", "5">>, <<"0", ",", "8", "9", "5">>,
     <<"0", ",", "8", "9">>}

\* cells of LFLFLFM3.1 and LFLFLFM1.3
CondCells ==
    {<<E, E>>, <<<<"7">>, E>>, <<<<"1", "0">>, E>>,
     <<<<"1", "0", ",", "8">>, E>>, <<<<"2", "0">>, E>>,
     <<<<"2", "2", ",", "5">>, E>>, <<<<"4", "0">>, E>>,
     <<<<"4", "0", "0">>, E>>,
     <<E, <<"2", "5">>>>, <<vBlank, <<"1", "2">>>>}

\* cells of "Theo elekt Leit (EU) korr"
TheoCells ==
    {E, <<"0">>, <<"9", ",", "0">>, <<"1", "0">>, <<"2", "5">>, <<"4", "0", "0">>}

\* cells of "Corg berechnet"
CorgCells == {E, <<"1", "0">>, <<"1", "5">>, <<"2", "5">>}

\* repeat cells: "2" marks a repeat after trimming
RepeatCells == {E, <<"2">>, <<" ", "2", " ">>, <<"2", "2">>, <<"x">>}

\* first measurements with every combination of the cells
FirstMeasurementFiles ==
    {IonFile(IonHeaderCells, <<IonRow(<<"1">>, corg, cond, quotient, theo)>>) :
        corg \in CorgCells, cond \in CondCells,
        quotient \in QuotientCells, theo \in TheoCells}

\* rows with the other repeat cells, on fewer combinations
RepeatCellFiles ==
    {IonFile(IonHeaderCells, <<IonRow(repeat, corg, cond, quotient, theo)>>) :
        repeat \in RepeatCells,
        corg \in {E, <<"1", "5">>, <<"2", "5">>},
        cond \in {<<E, E>>, <<<<"7">>, E>>, <<<<"4", "0">>, E>>, <<<<"4", "0", "0">>, E>>},
        quotient \in {E, <<"1", ",", "0", "0", "4">>, <<"1", ",", "1", "1", "4">>},
        theo \in {E, <<"2", "5">>, <<"4", "0", "0">>}}

\* files without the theoretical conductivity column or without any
\* ion-balance column, a row that ends before the repeat cell, and a first
\* measurement that follows its repeat in the file
OtherIonFiles ==
    {IonFile(<<sCorg, sCond31, sCond13, sQuotientIons>>,
             <<RawRow(<<"S">>, <<"1">>, <<"1">>,
                      <<E, <<"4", "0">>, E, quotient>>)>>) :
        quotient \in QuotientCells}
    \cup {IonFile(<<nTOCTC \o s11>>, <<RawRow(<<"S">>, <<"1">>, repeat, <<v1>>)>>) :
            repeat \in RepeatCells}
    \cup {IonFile(IonHeaderCells, << <<<<"S">>, <<"1">>>> >>)}
    \cup {IonFile(IonHeaderCells,
                  <<IonRow(<<"2">>, <<"2", "5">>, <<<<"7">>, E>>,
                           <<"1", ",", "1", "1", "4">>, <<"1", "0">>),
                    IonRow(<<"1">>, <<"2", "5">>, <<<<"7">>, E>>,
                           quotient, <<"1", "0">>)>>) :
            quotient \in {<<"1", ",", "0", "0", "4">>, <<"1", ",", "1", "1", "4">>}}

IonFiles == FirstMeasurementFiles \cup RepeatCellFiles \cup OtherIonFiles

\* the app after rawFile was loaded and every row selected on the selection tab
Loaded(files) ==
    /\ rawFile \in files
    /\ parsedData = parseLabDataCsv(rawFile)
    /\ selection = [initialSelection(parsedData) EXCEPT
                        !.selectedRowIds = RowIds(parsedData)]
    /\ comments = <<>>
    /\ isLoading = FALSE
    /\ error = "null"
    /\ pending = EmptyBag
    /\ requests = 0
    /\ cloud = NoBlob
    /\ last = [op |-> "toggleAllRows", arg |-> "", row |-> 0]
    /\ name = <<>>
    /\ group = "none"
    /\ active = {}
    /\ colour = NoColour
    /\ processedData = <<>>
    /\ csvRows = <<>>
    /\ ibRows = <<>>
    /\ timer = 0
    /\ idle = 0

\* the ion-balance tab is opened: IonBalanceAnalysis mounts, processedData
\* is computed and the seeding effect runs
openIonBalance ==
    /\ parsedData.loaded
    /\ processedData' = processedDataOf(parsedData)
    /\ comments' = seededComments(comments, processedData')
    /\ last' = [op |-> "openIonBalance", arg |-> "", row |-> 0]
    /\ UNCHANGED <<parsedData, selection, isLoading, error, pending, requests, cloud>>
    /\ UNCHANGED <<name, group, active, colour, rawFile, csvRows, ibRows>>
    /\ timer' = IF comments' = comments THEN timer ELSE 0
    /\ UNCHANGED idle

\* the CSV export button of the ion-balance tab
handleExport ==
    /\ processedData # <<>>
    /\ csvRows' = [i \in 1..Len(processedData) |-> csvRow(processedData[i], comments)]
    /\ UNCHANGED appVars
    /\ UNCHANGED <<name, group, active, colour, rawFile, processedData, ibRows>>
    /\ UNCHANGED timeVars

\* the Excel export button of the report tab (sheet 2)
\* a plausible slip: sheet 2 is built from the rows of sheet 1
handleExcelExportSelectedRows ==
    /\ parsedData.loaded
    /\ reportRows(parsedData, selection) # <<>>
    /\ relevantHeaders(parsedData) # {}
    /\ LET ibSorted == reportRows(parsedData, selection)
       IN  ibRows' = [i \in 1..Len(ibSorted) |-> ibRow(parsedData, ibSorted[i], comments)]
    /\ UNCHANGED appVars
    /\ UNCHANGED <<name, group, active, colour, rawFile, processedData, csvRows>>
    /\ UNCHANGED timeVars

handleExcelExport ==
    /\ parsedData.loaded
    /\ reportRows(parsedData, selection) # <<>>
    /\ relevantHeaders(parsedData) # {}
    /\ LET ibSorted == ionSorted(parsedData.data)
       IN  ibRows' = [i \in 1..Len(ibSorted) |-> ibRow(parsedData, ibSorted[i], comments)]
    /\ UNCHANGED appVars
    /\ UNCHANGED <<name, group, active, colour, rawFile, processedData, csvRows>>
    /\ UNCHANGED timeVars

IonBalanceInit == Loaded(IonFiles)

IonBalanceNext ==
    \/ openIonBalance
    \/ handleExport
    \/ handleExcelExport

SpecIonBalance == IonBalanceInit /\ [][IonBalanceNext]_vars

---------------------------------------------------------------------------
(* Diagnostics of a row of the loaded dataset, from its cells *)

CellOf(id, headerName) ==
    valueOf(RowOf(parsedData, id), findHeader(parsedData, headerName))

QuotientOf(id) == parseGermanFloat(CellOf(id, sQuotientIons))
CorgOf(id) == parseGermanFloat(CellOf(id, sCorg))
TheoOf(id) == parseGermanFloat(CellOf(id, sTheoCond))
MeasuredOf(id) == parseGermanFloat(valCond(CellOf(id, sCond31), CellOf(id, sCond13)))

IbAvailable(id) == ~isNaN(QuotientOf(id))
LfAvailable(id) == hasCondQuotient(MeasuredOf(id), TheoOf(id))
IbValid(id) == isIbOk(roundedQuotientIons(QuotientOf(id)))
LfValid(id) == isLfOk(MeasuredOf(id), TheoOf(id))

\* the remarks and the comments of the rendered table, of the last CSV
\* export and of the last spreadsheet, as pairs <<row id, text>>
ShownRemarks ==
    {<<processedData[i].id, processedData[i].display.bemerkung>> :
        i \in 1..Len(processedData)}
    \cup {<<csvRows[i].id, csvRows[i].bemerkung>> : i \in 1..Len(csvRows)}
    \cup {<<ibRows[i].id, ibRows[i].bemerkung>> : i \in 1..Len(ibRows)}

ShownAutoComments ==
    {<<processedData[i].id, processedData[i].display.autoComment>> :
        i \in 1..Len(processedData)}
    \cup {<<csvRows[i].id, csvRows[i].comment>> : i \in 1..Len(csvRows)}
    \cup {<<ibRows[i].id, ibRows[i].comment>> : i \in 1..Len(ibRows)}

IsRepeatRow(id) == RowOf(parsedData, id).isRepeat

\* remarks that state a valid ion balance, a valid conductivity
IbOkRemarks == {"ok", "IB ok, LF nicht", "IB ok"}
LfOkRemarks == {"ok", "IB nicht ok ; LF ok"}

\* C16: the remark of a non-repeat row follows from which diagnostics are
\* available and from (ibOk, lfOk): four texts with both, "IB ok" or
\* "IB nicht ok" with the ion quotient only, empty with neither; a missing
\* diagnostic is never stated as ok.
C16_RemarkByAvailability ==
    \A p \in ShownRemarks :
        LET id == p[1]
            remark == p[2]
        IN  ~IsRepeatRow(id) =>
              /\ (IbAvailable(id) /\ LfAvailable(id)) =>
                    remark = IF IbValid(id) /\ LfValid(id) THEN "ok"
                             ELSE IF IbValid(id) THEN "IB ok, LF nicht"
                             ELSE IF LfValid(id) THEN "IB nicht ok ; LF ok"
                             ELSE "IB nicht ok + LF nicht ok"
              /\ (IbAvailable(id) /\ ~LfAvailable(id)) =>
                    remark = IF IbValid(id) THEN "IB ok" ELSE "IB nicht ok"
              /\ (~IbAvailable(id) /\ ~LfAvailable(id)) => remark = ""
              /\ ~LfAvailable(id) => remark \notin LfOkRemarks
              /\ ~IbAvailable(id) => remark \notin IbOkRemarks

\* a valid ion quotient with a theoretical conductivity of zero is shown
\* and exported as "IB ok"
C16_Witness ==
    /\ processedData # <<>> /\ csvRows # <<>> /\ ibRows # <<>>
    /\ \E p \in ShownRemarks :
        /\ ~IsRepeatRow(p[1])
        /\ IbValid(p[1])
        /\ ~isNaN(MeasuredOf(p[1]))
        /\ TheoOf(p[1]) = Num(0, 1)
    /\ \A p \in ShownRemarks : p[2] = "IB ok"

\* the auto-comment the ordered chain gives for a row
ChainComment(id) ==
    IF IbValid(id) /\ LfValid(id) THEN ""
    ELSE IF Greater(CorgOf(id), 20) THEN "Corg>20"
    ELSE IF Greater(CorgOf(id), 10) /\ Less(MeasuredOf(id), 50) THEN "Corg>10 LTF<50"
    ELSE IF Greater(MeasuredOf(id), 300) /\ ~LfValid(id)
    THEN "gilt nur für Ideal verdünnte Lösungen"
    ELSE IF Less(MeasuredOf(id), 30) THEN "Leitfähigkeit < 30"
    ELSE ""

\* C17: the auto-comment of a non-repeat row is the first match of the chain
\* Corg > 20, Corg > 10 with conductivity < 50, conductivity > 300 with an
\* invalid conductivity diagnostic, conductivity < 30, and it is empty when
\* both diagnostics are valid; Corg 25 with a deviation gives "Corg>20".
C17_AutoCommentChain ==
    \A p \in ShownAutoComments :
        ~IsRepeatRow(p[1]) =>
            /\ p[2] = ChainComment(p[1])
            /\ p[2] # "" => (~IbValid(p[1]) \/ ~LfValid(p[1]))
            /\ (CorgOf(p[1]) = Num(25, 1) /\ (~IbValid(p[1]) \/ ~LfValid(p[1])))
                    => p[2] = "Corg>20"

\* Corg 25 with conductivity 40 and an invalid ion balance: the second link
\* of the chain matches as well, the first one wins
C17_Witness ==
    /\ processedData # <<>> /\ csvRows # <<>> /\ ibRows # <<>>
    /\ \E p \in ShownAutoComments :
        /\ ~IsRepeatRow(p[1])
        /\ CorgOf(p[1]) = Num(25, 1)
        /\ MeasuredOf(p[1]) = Num(40, 1)
        /\ IbAvailable(p[1]) /\ ~IbValid(p[1])
    /\ \A p \in ShownAutoComments : p[2] = "Corg>20"

\* the repeat cell of the raw row a record was made from, trimmed
RawRepeatCell(id) == CellTrim(RawRowOf(RowOf(parsedData, id)), 3)

\* C18: a row is a repeat row exactly when its trimmed repeat cell is "2";
\* a repeat row has an empty remark and an empty auto-comment in the table,
\* in the CSV export and in the spreadsheet, and no comment is seeded for it.
C18_RepeatRowsStayBlank ==
    \A id \in RowIds(parsedData) :
        /\ IsRepeatRow(id) = (RawRepeatCell(id) = <<"2">>)
        /\ RawRepeatCell(id) = <<"2">> =>
              /\ \A p \in ShownRemarks : p[1] = id => p[2] = ""
              /\ \A p \in ShownAutoComments : p[1] = id => p[2] = ""
              /\ id \notin DOMAIN comments

\* a repeat row marked " 2 " with Corg 25 and an invalid ion balance, shown
\* and exported twice
C18_Witness ==
    /\ processedData # <<>> /\ csvRows # <<>> /\ ibRows # <<>>
    /\ \E id \in RowIds(parsedData) :
        /\ Has(RawRowOf(RowOf(parsedData, id)), 3)
        /\ At(RawRowOf(RowOf(parsedData, id)), 3) = <<" ", "2", " ">>
        /\ IsRepeatRow(id)
        /\ CorgOf(id) = Num(25, 1)
        /\ IbAvailable(id) /\ ~IbValid(id)
        /\ <<id, "">> \in ShownRemarks

\* C19: a row counts as ion-balance valid exactly when its quotient, rounded
\* half-up to two decimals, lies in [0.90, 1.10]; a missing or non-numeric
\* quotient never counts as valid.
C19_IonValidityRoundHalfUp ==
    \A p \in ShownRemarks :
        ~IsRepeatRow(p[1]) =>
            (p[2] \in IbOkRemarks) =
                (/\ IbAvailable(p[1])
                 /\ RoundHalfUp2(QuotientOf(p[1])) >= 90
                 /\ RoundHalfUp2(QuotientOf(p[1])) <= 110)

\* the decimal quotient measured / theoretical lies in [lo/10, hi/10]
ExactInBand(measured, theo, lo, hi) ==
    /\ Sign(measured.num * theo.den * 10 - lo * theo.num * measured.den)
            * Sign(theo.num) >= 0
    /\ Sign(measured.num * theo.den * 10 - hi * theo.num * measured.den)
            * Sign(theo.num) <= 0

\* C20: with both diagnostics shown, a row counts as conductivity valid
\* exactly when measured / theoretical lies in the band of the measured
\* value ([0.9, 1.1] above 20, [0.8, 1.2] from 10 to 20, [0.7, 1.3] below
\* 10, limits included); with a theoretical value of zero or a missing
\* operand it never counts as valid.
C20_ConductivityBands ==
    \A p \in ShownRemarks :
        LET id == p[1]
            m == MeasuredOf(id)
            t == TheoOf(id)
            defined == ~isNaN(m) /\ ~isNaN(t) /\ t.num # 0
        IN  ~IsRepeatRow(id) =>
              /\ ~defined => p[2] \notin LfOkRemarks
              /\ (defined /\ IbAvailable(id)) =>
                    (p[2] \in LfOkRemarks) =
                        IF Greater(m, 20) THEN ExactInBand(m, t, 9, 11)
                        ELSE IF AtLeast(m, 10) THEN ExactInBand(m, t, 8, 12)
                        ELSE ExactInBand(m, t, 7, 13)

---------------------------------------------------------------------------
(* The comments of the ion-balance tab: seeding, the analyst's choice and  *)
(* the exports                                                             *)

\* a row that gets "Corg>20", a row that gets "Leitfähigkeit < 30", and a
\* valid first measurement followed by its repeat
CommentFiles ==
    {IonFile(IonHeaderCells,
             <<IonRow(<<"1">>, <<"2", "5">>, <<<<"4", "0">>, E>>,
                      <<"1", ",", "1", "1", "4">>, <<"2", "5">>)>>),
     IonFile(IonHeaderCells,
             <<IonRow(<<"1">>, E, <<<<"7">>, E>>, <<"x">>, E)>>),
     IonFile(IonHeaderCells,
             <<IonRow(<<"1">>, E, <<<<"2", "2", ",", "5">>, E>>,
                      <<"1", ",", "0", "0", "4">>, <<"2", "5">>),
               IonRow(<<"2">>, <<"2", "5">>, <<<<"7">>, E>>,
                      <<"1", ",", "1", "1", "4">>, <<"2", "5">>)>>)}

\* the options the analyst picks on the ion-balance tab
IonCommentInputs == {"", "NM"}

CommentsInit == Loaded(CommentFiles)

CommentsNext ==
    \/ openIonBalance
    \/ handleCommentChange(IonCommentInputs)
    \/ handleExport
    \/ handleExcelExport

SpecComments == CommentsInit /\ [][CommentsNext]_vars

\* C12: a seeding run (the ion-balance tab is opened, the processed data
\* recomputed) leaves every row's comment as it is once the row has one of
\* the comment options as its comment.
C12_SeedingKeepsComments ==
    [][ last'.op = "openIonBalance" =>
            \A id \in DOMAIN comments :
                comments[id] \in COMMENT_OPTIONS => comments'[id] = comments[id] ]_vars

---------------------------------------------------------------------------
(* The selection operations, step by step *)

\* the base names with at least one non-empty result for the row
NonEmptyParams(id) == seedParams(parsedData, RowOf(parsedData, id))

\* the step leaves selectedRowIds and the active sets of the other rows alone
OnlyRowParamsOf(rowId) ==
    /\ selection'.selectedRowIds = selection.selectedRowIds
    /\ \A other \in RowIds(parsedData) \ {rowId} :
            paramsOf(selection', other) = paramsOf(selection, other)

\* C21: toggle-all-parameters for a row, with available = the base names with
\* a non-empty result for the row: all active before -> no active parameter
\* afterwards, otherwise every available parameter active afterwards;
\* selectedRowIds and the other rows' active sets are unchanged.
C21_ToggleAllParams ==
    [][ last'.op = "toggleAllParamsForRow" =>
            \E rowId \in selection.selectedRowIds :
                /\ IF NonEmptyParams(rowId) \subseteq paramsOf(selection, rowId)
                   THEN paramsOf(selection', rowId) = {}
                   ELSE NonEmptyParams(rowId) \subseteq paramsOf(selection', rowId)
                /\ OnlyRowParamsOf(rowId) ]_vars

\* the parameters shown for the row that belong to device group g
ParamsInGroup(rowId, g) ==
    {p \in availableParams(parsedData, rowId) : getDeviceGroup(p) = g}

\* C22: toggle-group for a row: when all of the row's available parameters of
\* the group are active they all become inactive, otherwise they all become
\* active; the parameters of the other groups, the other rows and
\* selectedRowIds stay as they are; nothing changes when the row has no
\* available parameter of the group.
C22_ToggleGroupScoped ==
    [][ last'.op = "toggleGroupForRow" =>
            \E rowId \in selection.selectedRowIds : \E g \in DeviceGroups :
                LET inGroup == ParamsInGroup(rowId, g)
                    before == paramsOf(selection, rowId)
                    after == paramsOf(selection', rowId)
                IN  /\ inGroup = {} => selection' = selection
                    /\ inGroup # {} =>
                          IF inGroup \subseteq before
                          THEN after \cap inGroup = {}
                          ELSE inGroup \subseteq after
                    /\ after \ inGroup = before \ inGroup
                    /\ OnlyRowParamsOf(rowId) ]_vars

\* a group was switched off for a selected row while a parameter of another
\* group stays active
C22_Witness ==
    /\ last.op = "toggleGroupForRow"
    /\ \E rowId \in selection.selectedRowIds : \E g \in DeviceGroups :
        /\ ParamsInGroup(rowId, g) # {}
        /\ ParamsInGroup(rowId, g) \cap paramsOf(selection, rowId) = {}
        /\ \E p \in availableParams(parsedData, rowId) :
                getDeviceGroup(p) # g /\ p \in paramsOf(selection, rowId)

---------------------------------------------------------------------------
(* Base-name extraction on every header of up to MaxHeaderLen characters   *)
(* (getBaseName of ReportView and DataSelection, getBaseParamName of App:  *)
(* the same replace)                                                       *)

MaxHeaderLen == 6

HeaderAlphabet == {"M", "1", "."}

RECURSIVE StringsUpTo(_)
StringsUpTo(n) ==
    IF n = 0 THEN {<<>>}
    ELSE LET shorter == StringsUpTo(n - 1)
         IN  shorter \cup {Append(s, c) : s \in shorter, c \in HeaderAlphabet}

BaseNameInit ==
    /\ AppConstructed
    /\ name \in StringsUpTo(MaxHeaderLen)
    /\ group = "none"
    /\ active = {}
    /\ colour = NoColour
    /\ AnalysisIdle

\* a call of getBaseName on the name; the result is the next argument
stripSuffix ==
    /\ name' = getBaseName(name)
    /\ last' = [op |-> "getBaseName", arg |-> name, row |-> 0]
    /\ UNCHANGED <<parsedData, selection, comments, isLoading, error, pending,
                   requests, cloud>>
    /\ UNCHANGED <<group, active, colour>>
    /\ UNCHANGED analysisVars
    /\ UNCHANGED timeVars

BaseNameNext == stripSuffix

SpecBaseName == BaseNameInit /\ [][BaseNameNext]_vars

\* s ends with <digits>.<digits>
EndsWithVersion(s) == \E i \in 1..Len(s) : IsNumericSuffix(s, i)

\* C24: base-name extraction is idempotent, and a name that does not end
\* with <digits>.<digits> is returned unchanged.
C24_BaseNameIdempotent ==
    [][ last'.op = "getBaseName" =>
            /\ getBaseName(name') = name'
            /\ ~EndsWithVersion(name')
            /\ ~EndsWithVersion(name) => name' = name ]_vars

\* "1.11.1": the match is "11.1", and the rest "1." has no suffix left
C24_Witness ==
    /\ last.op = "getBaseName"
    /\ last.arg = <<"1", ".", "1", "1", ".", "1">>
    /\ name = <<"1", ".">>

---------------------------------------------------------------------------
(* Classification of a header and of its base name                         *)

\* C29: a header and its base name are classified into the same device
\* group.
C29_ClassifyBaseName ==
    group # "none" => group = getDeviceGroup(getBaseName(name))

---------------------------------------------------------------------------
(* The stored selection against the dataset                                *)

\* C30: once a dataset is loaded, rowParams has an entry for every row of
\* the dataset and no row has an active parameter without a non-empty value
\* in that row, whatever selection operations have run.
C30_ActiveHaveValues ==
    parsedData # NullData =>
        \A id \in RowIds(parsedData) :
            /\ id \in DOMAIN selection.rowParams
            /\ paramsOf(selection, id) \subseteq NonEmptyParams(id)

\* all parameters of a row were switched on again while the row has a
\* relevant header with a blank cell whose base name stays inactive
C30_Witness ==
    /\ last.op = "toggleAllParamsForRow"
    /\ \E id \in selection.selectedRowIds :
        /\ paramsOf(selection, id) # {}
        /\ \E h \in relevantHeaders(parsedData) :
            /\ ~HasValue(RowOf(parsedData, id), h)
            /\ getBaseName(h) \notin paramsOf(selection, id)

---------------------------------------------------------------------------
(* The chemical sets and the row colour                                    *)

PriorityColour(type) ==
    CASE type = "P" -> YELLOW
      [] type = "S" -> ORANGE
      [] type = "N" -> PINK

\* C28: right after a chemical set P, S or N was applied to a row with at
\* least one matching available parameter, the colour of that row is the
\* priority colour of the set (yellow, orange, pink).
C28_ChemSetColour ==
    last.op = "toggleChemSet" =>
        (chemTargets(last.arg, availableParams(parsedData, last.row)) # {} =>
            getRowColorClass(paramsOf(selection, last.row))
                = PriorityColour(last.arg))

\* the S set on a row that also has other parameters with a value
C28_Witness ==
    /\ last.op = "toggleChemSet"
    /\ last.arg = "S"
    /\ getRowColorClass(paramsOf(selection, last.row)) = ORANGE
    /\ \E p \in availableParams(parsedData, last.row) : ~MatchesList(p, S_NAMES)

---------------------------------------------------------------------------
(* The loading flag and the operations in flight                           *)

\* C27: whenever a file parse, a cloud save or a cloud load is in flight,
\* isLoading is true.
C27_LoadingCoversInFlight ==
    InFlight # {} => isLoading

---------------------------------------------------------------------------
(* Sheet 2 of the spreadsheet against the ion-balance view, with rows     *)
(* selected and deselected                                                 *)

SheetInit == Loaded(IonFiles)

SheetNext ==
    \/ toggleRow
    \/ openIonBalance
    \/ handleExcelExport

SpecSheet == SheetInit /\ [][SheetNext]_vars

\* the lines of sheet 2 for a dataset row
SheetLinesOf(id) == {i \in 1..Len(ibRows) : ibRows[i].id = id}

\* C25: sheet 2 has exactly one line for every dataset row, selected or
\* not, and the line's remark and auto-comment are the ones the ion-balance
\* view shows for that row.
C25_SheetMatchesView ==
    ibRows # <<>> =>
        /\ Len(ibRows) = Len(parsedData.data)
        /\ \A id \in RowIds(parsedData) : Cardinality(SheetLinesOf(id)) = 1
        /\ \A i \in 1..Len(ibRows) : \A j \in 1..Len(processedData) :
                processedData[j].id = ibRows[i].id =>
                    /\ ibRows[i].bemerkung = processedData[j].display.bemerkung
                    /\ ibRows[i].autoComment = processedData[j].display.autoComment

\* two dataset rows, one of them deselected, exported while the view is
\* rendered; one line carries a remark and an auto-comment
C25_Witness ==
    /\ ibRows # <<>>
    /\ processedData # <<>>
    /\ Cardinality(RowIds(parsedData)) = 2
    /\ Cardinality(selection.selectedRowIds) = 1
    /\ \E i \in 1..Len(ibRows) :
        /\ ibRows[i].id \notin selection.selectedRowIds
        /\ ibRows[i].bemerkung # ""
        /\ ibRows[i].autoComment # ""

---------------------------------------------------------------------------
(* The auto-save interval in time: one tick of the model is              *)
(* 120 s / IntervalTicks                                                   *)

IntervalTicks == 2

AutoSaveFiles == {FileC, FileD}

AutoSaveInit == Loaded(AutoSaveFiles)

\* time passes; the interval callback runs when the interval has elapsed,
\* so time does not pass beyond that point before it has run
passTime ==
    /\ parsedData.loaded
    /\ timer < IntervalTicks
    /\ timer' = timer + 1
    /\ idle' = IF idle <= IntervalTicks THEN idle + 1 ELSE idle
    /\ last' = [op |-> "passTime", arg |-> "", row |-> 0]
    /\ UNCHANGED <<parsedData, selection, comments, isLoading, error, pending,
                   requests, cloud>>
    /\ UNCHANGED pureVars

\* the callback of setInterval: saveToCloud(false)
autoSaveTick ==
    /\ timer = IntervalTicks
    /\ periodicSave

AutoSaveNext ==
    \/ passTime
    \/ autoSaveTick
    \/ toggleRow
    \/ handleCommentChange(CommentInputs)
    \/ saveStateHandler
    \/ networkFailure
    \/ saveSettled

SpecAutoSave == AutoSaveInit /\ [][AutoSaveNext]_vars

\* C26: while a dataset is loaded, no more than one interval (120 s) passes
\* without a save attempt starting, also when the selection or the comments
\* change in between.
C26_SaveWithinInterval ==
    parsedData.loaded => idle <= IntervalTicks

====
